---- MODULE Spec2Model ----
(***************************************************************************)
(* Authentication / session security core of 1fort_mvp:                    *)
(*   token-service  (src/unnamed/part_003 lines 1-464)                     *)
(*   otp-service    (src/unnamed/part_003 lines 465-698)                   *)
(*   security.ts    (src/src/app/lib/security.ts)                          *)
(*   schema.ts      (src/src/app/db/schema.ts)                             *)
(*                                                                         *)
(* The store is the relational store of schema.ts.  A statement issued on  *)
(* `db` is one atomic step; the statements of a `db.transaction` callback  *)
(* run while the transaction holds the store's write lock, and become      *)
(* visible together when it commits.  Calls are made from a small set of   *)
(* concurrent request handlers (Procs); every await between two statements *)
(* of a handler is a point where the other handlers may run.               *)
(*                                                                         *)
(* Time is counted in seconds, the resolution at which schema.ts stores    *)
(* its `timestamp` columns; the millisecond constants of the code are      *)
(* written in seconds.                                                     *)
(***************************************************************************)
EXTENDS Integers, FiniteSets, Sequences, TLC

(***************************************************************************)
(* Bounds of the model.                                                    *)
(***************************************************************************)
MaxTokens == 2
MaxTicks == 2
MaxAttemptCount == 5
MaxWrongCodes == 5
MaxOtps == 1
MaxRequestCount == 4

Procs == {"h1", "h2"}
Fingerprints == {"fpA", "fpB"}

(***************************************************************************)
(* Program constants.                                                      *)
(***************************************************************************)
REFRESH_TOKEN_EXPIRY_DAYS == 30
MAX_REFRESH_COUNT == 1000
MIN_REFRESH_INTERVAL == 60
GRACE_PERIOD == 10
DAY == 24 * 60 * 60
ORPHAN_RETENTION_DAYS == 7
BATCH_SIZE == 100
OTP_COOLDOWN == 60
OTP_EXPIRY == 10 * 60
MAX_ATTEMPTS == 5

\* null / undefined of the nullable columns and optional parameters
NoTime == 0 - 1
NoId == 0
NoFamily == 0
NoUser == "none"

\* the accounts that log in: `userId` xor `superuserId` is set
User == [userId |-> "u1", superuserId |-> NoUser]
Superuser == [userId |-> NoUser, superuserId |-> "s1"]
Accounts == {User, Superuser}

\* the amounts by which the clock is seen to advance between two steps
Jumps == {5, MIN_REFRESH_INTERVAL, REFRESH_TOKEN_EXPIRY_DAYS * DAY}

VARIABLES
  now,            \* Date.now(), in seconds
  ticksLeft,      \* how many more times the clock advances in this run
  nextId,         \* source of generateId / generateSecureToken / generateTokenFamily
  idsLeft,        \* how many more ids / secrets are drawn in this run
  refreshTokens,  \* table refresh_tokens: a set of rows
  sessions,       \* table sessions: a set of rows
  tokenBlacklist, \* table token_blacklist: a set of rows
  loc,            \* per handler: position and local variables of the call in
                  \* flight, or the result it has just returned (pc = "done")
  otps,           \* table otps: a set of rows
  otpLog,         \* what the OTP calls have done so far: undelivered, the ids
                  \* drawn by the sendOTP calls whose SMS was not delivered;
                  \* wrongCodes, the verifyOTP calls
                  \* with a code that matched no record since the last OTP
                  \* was stored, made while an OTP was outstanding; verified,
                  \* per OTP id, the successes returned on that record
  rateLimits,     \* table rate_limits: a set of rows
  rateLog,        \* per rate-limit record id, the checkRateLimit calls that
                  \* returned allowed = true on that record
  auditLogs       \* table audit_logs: a set of rows

vars == <<now, ticksLeft, nextId, idsLeft, refreshTokens, sessions, tokenBlacklist, loc,
          otps, otpLog, rateLimits, rateLog, auditLogs>>

\* the tables of the token service, the tables of the OTP service
tokenTables == <<refreshTokens, sessions, tokenBlacklist>>
otpTables == <<otps, otpLog>>
rateTables == <<rateLimits, rateLog>>
auditTables == <<auditLogs>>

Idle == [pc |-> "idle"]

\* security.ts hashToken: SHA-256 of the secret (collision-free on the secrets in use)
hashToken(token) == <<"sha256", token>>

\* db.transaction: the callback runs only while no other transaction is open
TxLockFree == \A q \in Procs : loc[q].pc \notin {"rotate_tx", "verify_tx"}

\* a statement outside a transaction waits for the write lock as well
CanWrite(p) == TxLockFree

\* a result is taken by its caller before any handler takes its next step
NoneDone == \A q \in Procs : loc[q].pc # "done"

----------------------------------------------------------------------------
(***************************************************************************)
(* Rows                                                                    *)
(***************************************************************************)
\* values(...) of the insert into refresh_tokens; the other columns take
\* their schema defaults.  The columns no statement of the service reads
\* (ipAddress, userAgent, createdAt, revokedAt) are left out of the rows.
NewRefreshToken(id, secret, userId, superuserId, family, fingerprint, t) ==
  [ id |-> id,
    tokenHash |-> hashToken(secret),
    userId |-> userId,
    superuserId |-> superuserId,
    tokenFamily |-> family,
    expiresAt |-> t + REFRESH_TOKEN_EXPIRY_DAYS * DAY,
    revoked |-> FALSE,
    rotatedAt |-> NoTime,
    newTokenId |-> NoId,
    deviceFingerprint |-> fingerprint ]

\* values(...) of the insert into sessions
NewSession(id, userId, superuserId, family, fingerprint, t) ==
  [ id |-> id,
    userId |-> userId,
    superuserId |-> superuserId,
    tokenFamily |-> family,
    deviceFingerprint |-> fingerprint,
    lastActivity |-> t,
    sessionStarted |-> t,
    refreshCount |-> 0,
    isActive |-> TRUE,
    revoked |-> FALSE,
    createdAt |-> t ]

\* update(refreshTokens).set({revoked: true, revokedAt}).where(tokenFamily = family)
RevokeFamilyTokens(rows, family) ==
  { IF r.tokenFamily = family THEN [r EXCEPT !.revoked = TRUE] ELSE r
    : r \in rows }

\* update(sessions).set({revoked: true, isActive: false}).where(tokenFamily = family)
RevokeFamilySessions(rows, family) ==
  { IF s.tokenFamily = family THEN [s EXCEPT !.revoked = TRUE, !.isActive = FALSE] ELSE s
    : s \in rows }

\* a record that is neither revoked nor rotated
IsActive(r) == ~r.revoked /\ r.rotatedAt = NoTime

FamilyOf(family) == { r \in refreshTokens : r.tokenFamily = family }
ActiveOf(family) == { r \in FamilyOf(family) : IsActive(r) }
Families == { r.tokenFamily : r \in refreshTokens } \cup { s.tokenFamily : s \in sessions }

----------------------------------------------------------------------------
(***************************************************************************)
(* Init                                                                    *)
(***************************************************************************)
Init ==
  /\ now = 0
  /\ ticksLeft = MaxTicks
  /\ nextId = 1
  /\ idsLeft = MaxTokens
  /\ refreshTokens = {}
  /\ sessions = {}
  /\ tokenBlacklist = {}
  /\ loc = [p \in Procs |-> Idle]
  /\ otps = {}
  /\ otpLog = [wrongCodes |-> 0, verified |-> <<>>, undelivered |-> {}]
  /\ rateLimits = {}
  /\ rateLog = <<>>
  /\ auditLogs = {}

\* the clock advances
Tick(d) ==
  /\ ticksLeft > 0
  /\ TxLockFree
  /\ NoneDone
  /\ now' = now + d
  /\ ticksLeft' = ticksLeft - 1
  /\ UNCHANGED <<nextId, idsLeft, refreshTokens, sessions, tokenBlacklist, loc>>
  /\ UNCHANGED otpTables
  /\ UNCHANGED tokenTables
  /\ UNCHANGED rateTables
  /\ UNCHANGED auditTables


----------------------------------------------------------------------------
\* the caller takes the result of the call: the handler is free again
Return(p) ==
  /\ loc[p].pc = "done"
  /\ loc' = [loc EXCEPT ![p] = Idle]
  /\ UNCHANGED <<now, ticksLeft, nextId, idsLeft, refreshTokens, sessions, tokenBlacklist>>
  /\ UNCHANGED otpTables
  /\ UNCHANGED tokenTables
  /\ UNCHANGED rateTables
  /\ UNCHANGED auditTables

----------------------------------------------------------------------------
(***************************************************************************)
(* generateTokenPair(userId, superuserId, deviceInfo, tokenFamily?)        *)
(* Two statements on `db`, outside any transaction.                        *)
(***************************************************************************)
SameAccount(row, acct) ==
  row.userId = acct.userId /\ row.superuserId = acct.superuserId

\* the families a caller can pass to continue: those of its own account
AccountFamilies(acct) ==
  { r.tokenFamily : r \in { x \in refreshTokens : SameAccount(x, acct) } }
    \cup { s.tokenFamily : s \in { x \in sessions : SameAccount(x, acct) } }

\* the store finds the insert of row in conflict on the target token_family:
\* a session of the family is already stored
FamilyConflict(rows, row) == \E s \in rows : s.tokenFamily = row.tokenFamily

\* a variant of UpsertSession without the onConflictDoUpdate clause
InsertSession(rows, row) == rows \cup {row}

\* a variant of UpsertSession whose update restarts the session
UpsertSessionRestarts(rows, row) ==
  IF FamilyConflict(rows, row)
    THEN { IF s.tokenFamily = row.tokenFamily
             THEN [s EXCEPT !.lastActivity = row.lastActivity,
                            !.sessionStarted = row.sessionStarted,
                            !.refreshCount = 0]
             ELSE s : s \in rows }
    ELSE rows \cup {row}

\* a variant of UpsertSession whose update makes the session active again
UpsertSessionRevives(rows, row) ==
  IF FamilyConflict(rows, row)
    THEN { IF s.tokenFamily = row.tokenFamily
             THEN [s EXCEPT !.lastActivity = row.lastActivity,
                            !.isActive = TRUE, !.revoked = FALSE]
             ELSE s : s \in rows }
    ELSE rows \cup {row}

\* insert(sessions).values(...).onConflictDoUpdate({target: tokenFamily, set: {lastActivity}})
UpsertSession(rows, row) ==
  IF FamilyConflict(rows, row)
    THEN { IF s.tokenFamily = row.tokenFamily
             THEN [s EXCEPT !.lastActivity = row.lastActivity] ELSE s : s \in rows }
    ELSE rows \cup {row}

\* what the call returns: the pair (the refresh secret; the access token is
\* signed for the account of the call)
GenReturn(p, refreshToken, family) ==
  loc' = [loc EXCEPT ![p] =
    [ pc |-> "done", op |-> "generateTokenPair",
      refreshToken |-> refreshToken, family |-> family ]]

\* lines 43-114, the whole call: insert the refresh token, upsert the session
GenerateTokenPair(p, acct, fingerprint, tokenFamily) ==
  /\ loc[p] = Idle
  /\ NoneDone
  /\ CanWrite(p)
  /\ idsLeft > 0
  /\ LET family == IF tokenFamily # NoFamily THEN tokenFamily ELSE nextId
     IN /\ refreshTokens' = refreshTokens \cup
             { NewRefreshToken(nextId, nextId, acct.userId, acct.superuserId,
                               family, fingerprint, now) }
        /\ sessions' = UpsertSession(sessions,
             NewSession(nextId, acct.userId, acct.superuserId, family, fingerprint, now))
        /\ GenReturn(p, nextId, family)
  /\ nextId' = nextId + 1
  /\ idsLeft' = idsLeft - 1
  /\ UNCHANGED <<now, ticksLeft, tokenBlacklist>>
  /\ UNCHANGED otpTables
  /\ UNCHANGED rateTables
  /\ UNCHANGED auditTables

\* the same call statement by statement, for the handlers that run side by
\* side.  Lines 49-87: draw the ids and the secret, insert the refresh token
GenInsertToken(p, acct, fingerprint, tokenFamily) ==
  /\ loc[p] = Idle
  /\ NoneDone
  /\ CanWrite(p)
  /\ idsLeft > 0
  /\ LET family == IF tokenFamily # NoFamily THEN tokenFamily ELSE nextId
     IN /\ refreshTokens' = refreshTokens \cup
             { NewRefreshToken(nextId, nextId, acct.userId, acct.superuserId,
                               family, fingerprint, now) }
        /\ loc' = [loc EXCEPT ![p] =
             [ pc |-> "gen_session", userId |-> acct.userId,
               superuserId |-> acct.superuserId, family |-> family,
               fingerprint |-> fingerprint, now |-> now,
               sessionId |-> nextId, refreshToken |-> nextId ]]
  /\ nextId' = nextId + 1
  /\ idsLeft' = idsLeft - 1
  /\ UNCHANGED <<now, ticksLeft, sessions, tokenBlacklist>>
  /\ UNCHANGED otpTables
  /\ UNCHANGED rateTables
  /\ UNCHANGED auditTables

\* lines 89-113: upsert the session, return the pair
GenUpsertSession(p) ==
  /\ loc[p].pc = "gen_session"
  /\ NoneDone
  /\ CanWrite(p)
  /\ sessions' = UpsertSession(sessions,
       NewSession(loc[p].sessionId, loc[p].userId, loc[p].superuserId,
                  loc[p].family, loc[p].fingerprint, loc[p].now))
  /\ GenReturn(p, loc[p].refreshToken, loc[p].family)
  /\ UNCHANGED <<now, ticksLeft, nextId, idsLeft, refreshTokens, tokenBlacklist>>
  /\ UNCHANGED otpTables
  /\ UNCHANGED rateTables
  /\ UNCHANGED auditTables

----------------------------------------------------------------------------
(***************************************************************************)
(* rotateRefreshToken(oldRefreshToken, deviceInfo)                         *)
(* One db.transaction: RotateBegin opens it and reads the token record,    *)
(* RotateCommit runs the rest of the callback and commits.                 *)
(***************************************************************************)
NoError == "none"
NoAccess == [userId |-> NoUser, superuserId |-> NoUser]
AccessFor(r) == [userId |-> r.userId, superuserId |-> r.superuserId]

\* what the call returns: {error} or {accessToken, refreshToken, expiresIn}
\* (access: the account the access token is signed for)
RotateReturn(p, call, error, refreshToken, access) ==
  loc' = [loc EXCEPT ![p] =
    [ pc |-> "done", op |-> "rotateRefreshToken",
      error |-> error,
      refreshToken |-> refreshToken,
      access |-> access ]]

\* lines 121-127: hash the secret, findFirst by tokenHash (0 or 1 row: the
\* column is unique)
FindByHash(oldRefreshToken) ==
  { r \in refreshTokens : r.tokenHash = hashToken(oldRefreshToken) }

\* the transaction ends with an error result and no write
RotateReject(p, call, error) ==
  /\ RotateReturn(p, call, error, NoId, NoAccess)
  /\ UNCHANGED <<nextId, idsLeft, refreshTokens, sessions>>

\* a variant of RotateRevoked that leaves the family's session alone
RotateRevokedRecordsOnly(p, call, tokenRecord) ==
  /\ refreshTokens' = RevokeFamilyTokens(refreshTokens, tokenRecord.tokenFamily)
  /\ RotateReturn(p, call, "Token has been revoked", NoId, NoAccess)
  /\ UNCHANGED <<nextId, idsLeft, sessions>>

\* lines 133-145: a revoked record is presented
RotateRevoked(p, call, tokenRecord) ==
  /\ refreshTokens' = RevokeFamilyTokens(refreshTokens, tokenRecord.tokenFamily)
  /\ sessions' = RevokeFamilySessions(sessions, tokenRecord.tokenFamily)
  /\ RotateReturn(p, call, "Token has been revoked", NoId, NoAccess)
  /\ UNCHANGED <<nextId, idsLeft>>

\* a variant of InGrace with the comparison on the elapsed time reversed
InGraceReversed(tokenRecord) ==
  /\ tokenRecord.rotatedAt # NoTime
  /\ tokenRecord.newTokenId # NoId
  /\ now - tokenRecord.rotatedAt > GRACE_PERIOD
  /\ \E n \in refreshTokens : n.id = tokenRecord.newTokenId /\ ~n.revoked

\* lines 152-162: the record was rotated less than GRACE_PERIOD ago and its
\* successor is there and not revoked
InGrace(tokenRecord) ==
  /\ tokenRecord.rotatedAt # NoTime
  /\ tokenRecord.newTokenId # NoId
  /\ now - tokenRecord.rotatedAt < GRACE_PERIOD
  /\ \E n \in refreshTokens : n.id = tokenRecord.newTokenId /\ ~n.revoked

\* lines 163-181: a new access token for the successor's account, the same secret
RotateGrace(p, call, tokenRecord) ==
  /\ \E newTokenRecord \in { n \in refreshTokens : n.id = tokenRecord.newTokenId } :
       RotateReturn(p, call, NoError, call.oldRefreshToken, AccessFor(newTokenRecord))
  /\ UNCHANGED <<nextId, idsLeft, refreshTokens, sessions>>

\* a variant of RotateMismatch that revokes only the presented record
RotateMismatchOneRecord(p, call, tokenRecord) ==
  /\ refreshTokens' =
       { IF r.id = tokenRecord.id THEN [r EXCEPT !.revoked = TRUE] ELSE r
         : r \in refreshTokens }
  /\ RotateReturn(p, call, "Device fingerprint mismatch", NoId, NoAccess)
  /\ UNCHANGED <<nextId, idsLeft, sessions>>

\* lines 211-218: the fingerprint differs
RotateMismatch(p, call, tokenRecord) ==
  /\ refreshTokens' = RevokeFamilyTokens(refreshTokens, tokenRecord.tokenFamily)
  /\ RotateReturn(p, call, "Device fingerprint mismatch", NoId, NoAccess)
  /\ UNCHANGED <<nextId, idsLeft, sessions>>

\* lines 220-273: insert the successor, mark the old record, update the session
RotateIssue(p, call, tokenRecord, session) ==
  /\ idsLeft > 0
  /\ refreshTokens' =
       { IF r.id = tokenRecord.id
           THEN [r EXCEPT !.rotatedAt = now, !.newTokenId = nextId] ELSE r
         : r \in refreshTokens }
       \cup { NewRefreshToken(nextId, nextId, tokenRecord.userId, tokenRecord.superuserId,
                              tokenRecord.tokenFamily, call.fingerprint, now) }
  /\ sessions' =
       { IF s.id = session.id
           THEN [s EXCEPT !.lastActivity = now, !.refreshCount = session.refreshCount + 1]
           ELSE s
         : s \in sessions }
  /\ nextId' = nextId + 1
  /\ idsLeft' = idsLeft - 1
  /\ RotateReturn(p, call, NoError, nextId, AccessFor(tokenRecord))

\* a variant of RotateWithSession that refuses a count only from two above
\* MAX_REFRESH_COUNT on
RotateWithSessionOneMore(p, call, tokenRecord, session) ==
  IF now - session.lastActivity < MIN_REFRESH_INTERVAL
    THEN RotateReject(p, call, "Token refreshed too frequently")
  ELSE IF now - session.sessionStarted > REFRESH_TOKEN_EXPIRY_DAYS * DAY
    THEN RotateReject(p, call, "Session expired. Please login again.")
  ELSE IF session.refreshCount > MAX_REFRESH_COUNT + 1
    THEN RotateReject(p, call, "Session requires re-authentication")
  ELSE IF tokenRecord.deviceFingerprint # call.fingerprint
    THEN RotateMismatch(p, call, tokenRecord)
  ELSE RotateIssue(p, call, tokenRecord, session)

\* lines 194-273: the checks on the session, then the fingerprint, then the issue
RotateWithSession(p, call, tokenRecord, session) ==
  IF now - session.lastActivity < MIN_REFRESH_INTERVAL
    THEN RotateReject(p, call, "Token refreshed too frequently")
  ELSE IF now - session.sessionStarted > REFRESH_TOKEN_EXPIRY_DAYS * DAY
    THEN RotateReject(p, call, "Session expired. Please login again.")
  ELSE IF session.refreshCount > MAX_REFRESH_COUNT
    THEN RotateReject(p, call, "Session requires re-authentication")
  ELSE IF tokenRecord.deviceFingerprint # call.fingerprint
    THEN RotateMismatch(p, call, tokenRecord)
  ELSE RotateIssue(p, call, tokenRecord, session)

\* a variant of RotateBody that looks at the expiry before the revocation
RotateBodyExpiredFirst(p, call) ==
  IF call.tokenRecord = {}
    THEN RotateReject(p, call, "Invalid refresh token")
  ELSE \E tokenRecord \in call.tokenRecord :
    IF now > tokenRecord.expiresAt
      THEN RotateReject(p, call, "Refresh token expired. Please login again.")
    ELSE IF tokenRecord.revoked
      THEN RotateRevoked(p, call, tokenRecord)
    ELSE IF InGrace(tokenRecord)
      THEN RotateGrace(p, call, tokenRecord)
    ELSE IF ~ \E s \in sessions : s.tokenFamily = tokenRecord.tokenFamily
      THEN RotateReject(p, call, "Session not found")
    ELSE \E session \in { s \in sessions : s.tokenFamily = tokenRecord.tokenFamily } :
      RotateWithSession(p, call, tokenRecord, session)

\* lines 129-274: the body of the transaction callback, in the order of the
\* code; call = the arguments and the token record the callback has read
RotateBody(p, call) ==
  IF call.tokenRecord = {}
    THEN RotateReject(p, call, "Invalid refresh token")
  ELSE \E tokenRecord \in call.tokenRecord :
    IF tokenRecord.revoked
      THEN RotateRevoked(p, call, tokenRecord)
    ELSE IF now > tokenRecord.expiresAt
      THEN RotateReject(p, call, "Refresh token expired. Please login again.")
    ELSE IF InGrace(tokenRecord)
      THEN RotateGrace(p, call, tokenRecord)
    ELSE IF ~ \E s \in sessions : s.tokenFamily = tokenRecord.tokenFamily
      THEN RotateReject(p, call, "Session not found")
    ELSE \E session \in { s \in sessions : s.tokenFamily = tokenRecord.tokenFamily } :
      RotateWithSession(p, call, tokenRecord, session)

\* the whole call as one step: the transaction from its first read to its commit
RotateRefreshToken(p, oldRefreshToken, fingerprint) ==
  /\ loc[p] = Idle
  /\ NoneDone
  /\ TxLockFree
  /\ RotateBody(p, [ oldRefreshToken |-> oldRefreshToken, fingerprint |-> fingerprint,
                     tokenRecord |-> FindByHash(oldRefreshToken) ])
  /\ UNCHANGED <<now, ticksLeft, tokenBlacklist>>
  /\ UNCHANGED otpTables
  /\ UNCHANGED rateTables
  /\ UNCHANGED auditTables

\* a variant of RotateBegin that does not wait for the open transaction of
\* another handler
RotateBeginNoLock(p, oldRefreshToken, fingerprint) ==
  /\ loc[p] = Idle
  /\ NoneDone
  /\ loc' = [loc EXCEPT ![p] =
       [ pc |-> "rotate_tx", oldRefreshToken |-> oldRefreshToken,
         fingerprint |-> fingerprint, tokenRecord |-> FindByHash(oldRefreshToken) ]]
  /\ UNCHANGED <<now, ticksLeft, nextId, idsLeft, refreshTokens, sessions, tokenBlacklist>>
  /\ UNCHANGED otpTables
  /\ UNCHANGED rateTables
  /\ UNCHANGED auditTables

\* the same call in two steps, for the handlers that run side by side:
\* the transaction is opened and the token record read ...
RotateBegin(p, oldRefreshToken, fingerprint) ==
  /\ loc[p] = Idle
  /\ NoneDone
  /\ TxLockFree
  /\ loc' = [loc EXCEPT ![p] =
       [ pc |-> "rotate_tx", oldRefreshToken |-> oldRefreshToken,
         fingerprint |-> fingerprint, tokenRecord |-> FindByHash(oldRefreshToken) ]]
  /\ UNCHANGED <<now, ticksLeft, nextId, idsLeft, refreshTokens, sessions, tokenBlacklist>>
  /\ UNCHANGED otpTables
  /\ UNCHANGED rateTables
  /\ UNCHANGED auditTables

\* ... and the rest of the callback runs and commits
RotateCommit(p) ==
  /\ loc[p].pc = "rotate_tx"
  /\ NoneDone
  /\ RotateBody(p, loc[p])
  /\ UNCHANGED <<now, ticksLeft, tokenBlacklist>>
  /\ UNCHANGED otpTables
  /\ UNCHANGED rateTables
  /\ UNCHANGED auditTables

\* the two tables as the transaction has written them so far
Tables(tokens, sess) == [refreshTokens |-> tokens, sessions |-> sess]

\* lines 220-254: the writes of the issue, one more statement done in each
IssueWritten(call, tokenRecord, session) ==
  LET inserted == refreshTokens \cup
        { NewRefreshToken(nextId, nextId, tokenRecord.userId, tokenRecord.superuserId,
                          tokenRecord.tokenFamily, call.fingerprint, now) }
      marked == { IF r.id = tokenRecord.id
                    THEN [r EXCEPT !.rotatedAt = now, !.newTokenId = nextId] ELSE r
                  : r \in inserted }
      counted == { IF s.id = session.id
                     THEN [s EXCEPT !.lastActivity = now,
                                    !.refreshCount = session.refreshCount + 1]
                     ELSE s
                   : s \in sessions }
  IN { Tables(inserted, sessions), Tables(marked, sessions), Tables(marked, counted) }

\* lines 129-268: what the callback may have written when one of its
\* statements throws (a read, a write, jwt.sign), in the order of the code
RotateWritten(call) ==
  {Tables(refreshTokens, sessions)} \cup
  IF call.tokenRecord = {} THEN {}
  ELSE UNION {
    IF tokenRecord.revoked
      THEN { Tables(RevokeFamilyTokens(refreshTokens, tokenRecord.tokenFamily), sessions),
             Tables(RevokeFamilyTokens(refreshTokens, tokenRecord.tokenFamily),
                    RevokeFamilySessions(sessions, tokenRecord.tokenFamily)) }
    ELSE IF now > tokenRecord.expiresAt \/ InGrace(tokenRecord)
      THEN {}
    ELSE UNION {
      IF \/ now - session.lastActivity < MIN_REFRESH_INTERVAL
         \/ now - session.sessionStarted > REFRESH_TOKEN_EXPIRY_DAYS * DAY
         \/ session.refreshCount > MAX_REFRESH_COUNT
        THEN {}
      ELSE IF tokenRecord.deviceFingerprint # call.fingerprint
        THEN { Tables(RevokeFamilyTokens(refreshTokens, tokenRecord.tokenFamily), sessions) }
      ELSE IssueWritten(call, tokenRecord, session)
      : session \in { s \in sessions : s.tokenFamily = tokenRecord.tokenFamily } }
    : tokenRecord \in call.tokenRecord }

\* a variant of Rollback that keeps what the callback wrote before it threw
RollbackKeepsWrites(before, written) == written

\* the store ends a transaction whose callback throws: its writes are undone
Rollback(before, written) == before

\* lines 275-278: a statement of the callback throws; the transaction is
\* rolled back and the catch turns the exception into an error result
RotateAbort(p) ==
  /\ loc[p].pc = "rotate_tx"
  /\ NoneDone
  /\ \E written \in RotateWritten(loc[p]) :
       LET after == Rollback(Tables(refreshTokens, sessions), written)
       IN /\ refreshTokens' = after.refreshTokens
          /\ sessions' = after.sessions
  /\ RotateReturn(p, loc[p], "An error occurred during token rotation", NoId, NoAccess)
  /\ UNCHANGED <<now, ticksLeft, nextId, idsLeft, tokenBlacklist>>
  /\ UNCHANGED otpTables
  /\ UNCHANGED rateTables
  /\ UNCHANGED auditTables

----------------------------------------------------------------------------
(***************************************************************************)
(* revokeAllTokens(userId?, superuserId?): two statements for the id given *)
(***************************************************************************)
\* the rows of the account: by userId when it is given, else by superuserId
OfAccount(row, acct) ==
  IF acct.userId # NoUser THEN row.userId = acct.userId
                          ELSE row.superuserId = acct.superuserId

\* a variant of RevokeAccountTokens that passes over the rotated records
RevokeAccountActiveTokens(rows, acct) ==
  { IF OfAccount(r, acct) /\ r.rotatedAt = NoTime THEN [r EXCEPT !.revoked = TRUE] ELSE r
    : r \in rows }

\* lines 332-334 / 342-344: update(refreshTokens).set({revoked: true, revokedAt})
RevokeAccountTokens(rows, acct) ==
  { IF OfAccount(r, acct) THEN [r EXCEPT !.revoked = TRUE] ELSE r : r \in rows }

\* lines 336-338 / 346-348: update(sessions).set({revoked: true, isActive: false})
RevokeAccountSessions(rows, acct) ==
  { IF OfAccount(s, acct) THEN [s EXCEPT !.revoked = TRUE, !.isActive = FALSE] ELSE s
    : s \in rows }

\* lines 325-350, the whole call
RevokeAllTokens(p, acct) ==
  /\ loc[p] = Idle
  /\ NoneDone
  /\ CanWrite(p)
  /\ refreshTokens' = RevokeAccountTokens(refreshTokens, acct)
  /\ sessions' = RevokeAccountSessions(sessions, acct)
  /\ UNCHANGED <<now, ticksLeft, nextId, idsLeft, tokenBlacklist, loc>>
  /\ UNCHANGED otpTables
  /\ UNCHANGED rateTables
  /\ UNCHANGED auditTables

\* the same call statement by statement: the records ...
RevokeAllRecords(p, acct) ==
  /\ loc[p] = Idle
  /\ NoneDone
  /\ CanWrite(p)
  /\ refreshTokens' = RevokeAccountTokens(refreshTokens, acct)
  /\ loc' = [loc EXCEPT ![p] =
       [pc |-> "revoke_sessions", userId |-> acct.userId, superuserId |-> acct.superuserId]]
  /\ UNCHANGED <<now, ticksLeft, nextId, idsLeft, sessions, tokenBlacklist>>
  /\ UNCHANGED otpTables
  /\ UNCHANGED rateTables
  /\ UNCHANGED auditTables

\* ... then the sessions
RevokeAllSessions(p) ==
  /\ loc[p].pc = "revoke_sessions"
  /\ NoneDone
  /\ CanWrite(p)
  /\ sessions' = RevokeAccountSessions(sessions,
       [userId |-> loc[p].userId, superuserId |-> loc[p].superuserId])
  /\ loc' = [loc EXCEPT ![p] = Idle]
  /\ UNCHANGED <<now, ticksLeft, nextId, idsLeft, refreshTokens, tokenBlacklist>>
  /\ UNCHANGED otpTables
  /\ UNCHANGED rateTables
  /\ UNCHANGED auditTables

----------------------------------------------------------------------------
(***************************************************************************)
(* enforceDeviceLimit(userId, superuserId, maxDevices)                     *)
(***************************************************************************)
MaxDevicesChoices == {1, 2}

\* lines 440-448: the active sessions of the account
ActiveSessions(acct) == { s \in sessions : OfAccount(s, acct) /\ s.isActive }

\* a variant of Oldest that picks the row no other row follows
Newest(rows) == { s \in rows : \A o \in rows : s.createdAt >= o.createdAt }

\* activeSessions[0] under orderBy asc(createdAt): a row no other row precedes
Oldest(rows) == { s \in rows : \A o \in rows : s.createdAt <= o.createdAt }

\* a variant of RevokeSession that writes isActive only
RevokeSessionInactiveOnly(rows, id) ==
  { IF s.id = id THEN [s EXCEPT !.isActive = FALSE] ELSE s : s \in rows }

\* lines 453-455: update(sessions).set({revoked: true, isActive: false}).where(id = oldest.id)
RevokeSession(rows, id) ==
  { IF s.id = id THEN [s EXCEPT !.revoked = TRUE, !.isActive = FALSE] ELSE s : s \in rows }

\* a variant of EnforceDeviceLimit that evicts one session early
EnforceDeviceLimitEarly(p, acct, maxDevices) ==
  /\ loc[p] = Idle
  /\ NoneDone
  /\ CanWrite(p)
  /\ IF Cardinality(ActiveSessions(acct)) >= maxDevices - 1
       THEN \E oldest \in Oldest(ActiveSessions(acct)) :
              /\ sessions' = RevokeSession(sessions, oldest.id)
              /\ refreshTokens' = RevokeFamilyTokens(refreshTokens, oldest.tokenFamily)
       ELSE UNCHANGED <<sessions, refreshTokens>>
  /\ UNCHANGED <<now, ticksLeft, nextId, idsLeft, tokenBlacklist, loc>>
  /\ UNCHANGED otpTables
  /\ UNCHANGED rateTables
  /\ UNCHANGED auditTables

\* lines 430-464, the whole call
EnforceDeviceLimit(p, acct, maxDevices) ==
  /\ loc[p] = Idle
  /\ NoneDone
  /\ CanWrite(p)
  /\ IF Cardinality(ActiveSessions(acct)) >= maxDevices
       THEN \E oldest \in Oldest(ActiveSessions(acct)) :
              /\ sessions' = RevokeSession(sessions, oldest.id)
              /\ refreshTokens' = RevokeFamilyTokens(refreshTokens, oldest.tokenFamily)
       ELSE UNCHANGED <<sessions, refreshTokens>>
  /\ UNCHANGED <<now, ticksLeft, nextId, idsLeft, tokenBlacklist, loc>>
  /\ UNCHANGED otpTables
  /\ UNCHANGED rateTables
  /\ UNCHANGED auditTables

\* the same call statement by statement.  Lines 435-452: read the active
\* sessions; pick the oldest when at the limit
EnforceRead(p, acct, maxDevices) ==
  /\ loc[p] = Idle
  /\ NoneDone
  /\ IF Cardinality(ActiveSessions(acct)) >= maxDevices
       THEN \E oldest \in Oldest(ActiveSessions(acct)) :
              loc' = [loc EXCEPT ![p] =
                [pc |-> "enforce_session", oldestId |-> oldest.id,
                 oldestFamily |-> oldest.tokenFamily]]
       ELSE loc' = loc
  /\ UNCHANGED <<now, ticksLeft, nextId, idsLeft, refreshTokens, sessions, tokenBlacklist>>
  /\ UNCHANGED otpTables
  /\ UNCHANGED rateTables
  /\ UNCHANGED auditTables

\* lines 453-455: revoke the oldest session
EnforceRevokeSession(p) ==
  /\ loc[p].pc = "enforce_session"
  /\ NoneDone
  /\ CanWrite(p)
  /\ sessions' = RevokeSession(sessions, loc[p].oldestId)
  /\ loc' = [loc EXCEPT ![p].pc = "enforce_tokens"]
  /\ UNCHANGED <<now, ticksLeft, nextId, idsLeft, refreshTokens, tokenBlacklist>>
  /\ UNCHANGED otpTables
  /\ UNCHANGED rateTables
  /\ UNCHANGED auditTables

\* lines 457-460: revoke the records of its family
EnforceRevokeTokens(p) ==
  /\ loc[p].pc = "enforce_tokens"
  /\ NoneDone
  /\ CanWrite(p)
  /\ refreshTokens' = RevokeFamilyTokens(refreshTokens, loc[p].oldestFamily)
  /\ loc' = [loc EXCEPT ![p] = Idle]
  /\ UNCHANGED <<now, ticksLeft, nextId, idsLeft, sessions, tokenBlacklist>>
  /\ UNCHANGED otpTables
  /\ UNCHANGED rateTables
  /\ UNCHANGED auditTables

----------------------------------------------------------------------------
(***************************************************************************)
(* The sweeps                                                              *)
(***************************************************************************)
\* the subsets of S with k elements
RECURSIVE KSubsets(_, _)
KSubsets(S, k) ==
  IF k = 0 THEN {{}}
  ELSE UNION { { keep \cup {x} : keep \in KSubsets(S \ {x}, k - 1) } : x \in S }

\* SELECT id ... LIMIT ?: the sets of rows the subquery can return, all the
\* rows that match when they are at most the limit, else any limit of them
\* (the rows that match less the ones left out)
Limit(matching, limit) ==
  IF Cardinality(matching) <= limit
    THEN {matching}
    ELSE { matching \ keep : keep \in KSubsets(matching, Cardinality(matching) - limit) }

\* a variant of Batches that also takes the rows expiring at t
BatchesThroughNow(rows, t) ==
  Limit({ r \in rows : r.expiresAt <= t }, BATCH_SIZE)

\* DELETE ... WHERE id IN (SELECT id ... WHERE expires_at < ? LIMIT ?):
\* the sets of rows one batch can delete
Batches(rows, t) ==
  Limit({ r \in rows : r.expiresAt < t }, BATCH_SIZE)

\* do { one batch } while (deleted === BATCH_SIZE): the rows left by the loop
RECURSIVE SweepLoop(_, _)
SweepLoop(rows, t) ==
  LET d == CHOOSE d \in Batches(rows, t) : TRUE
  IN IF Cardinality(d) = BATCH_SIZE THEN SweepLoop(rows \ d, t) ELSE rows \ d

\* cleanupExpiredTokens, lines 355-396, the whole call: the two loops
CleanupExpiredTokens(p) ==
  /\ loc[p] = Idle
  /\ NoneDone
  /\ CanWrite(p)
  /\ refreshTokens' = SweepLoop(refreshTokens, now)
  /\ tokenBlacklist' = SweepLoop(tokenBlacklist, now)
  /\ UNCHANGED <<now, ticksLeft, nextId, idsLeft, sessions, loc>>
  /\ UNCHANGED otpTables
  /\ UNCHANGED rateTables
  /\ UNCHANGED auditTables

\* line 357: now is taken once, before the first batch
SweepNow(p) == IF loc[p] = Idle THEN now ELSE loc[p].now

\* a variant of SweepTokens that goes on to the blacklist after its first batch
SweepTokensOnce(p) ==
  /\ loc[p] = Idle \/ loc[p].pc = "sweep_tokens"
  /\ NoneDone
  /\ CanWrite(p)
  /\ \E d \in Batches(refreshTokens, SweepNow(p)) :
       /\ refreshTokens' = refreshTokens \ d
       /\ loc' = [loc EXCEPT ![p] = [pc |-> "sweep_blacklist", now |-> SweepNow(p)]]
  /\ UNCHANGED <<now, ticksLeft, nextId, idsLeft, sessions, tokenBlacklist>>
  /\ UNCHANGED otpTables
  /\ UNCHANGED rateTables
  /\ UNCHANGED auditTables

\* the same call batch by batch.  Lines 357-376: one batch of refresh_tokens
SweepTokens(p) ==
  /\ loc[p] = Idle \/ loc[p].pc = "sweep_tokens"
  /\ NoneDone
  /\ CanWrite(p)
  /\ \E d \in Batches(refreshTokens, SweepNow(p)) :
       /\ refreshTokens' = refreshTokens \ d
       /\ loc' = [loc EXCEPT ![p] =
            [pc |-> IF Cardinality(d) = BATCH_SIZE THEN "sweep_tokens"
                    ELSE "sweep_blacklist", now |-> SweepNow(p)]]
  /\ UNCHANGED <<now, ticksLeft, nextId, idsLeft, sessions, tokenBlacklist>>
  /\ UNCHANGED otpTables
  /\ UNCHANGED rateTables
  /\ UNCHANGED auditTables

\* lines 378-395: one batch of token_blacklist
SweepBlacklist(p) ==
  /\ loc[p].pc = "sweep_blacklist"
  /\ NoneDone
  /\ CanWrite(p)
  /\ \E d \in Batches(tokenBlacklist, loc[p].now) :
       /\ tokenBlacklist' = tokenBlacklist \ d
       /\ loc' = IF Cardinality(d) = BATCH_SIZE THEN loc ELSE [loc EXCEPT ![p] = Idle]
  /\ UNCHANGED <<now, ticksLeft, nextId, idsLeft, refreshTokens, sessions>>
  /\ UNCHANGED otpTables
  /\ UNCHANGED rateTables
  /\ UNCHANGED auditTables

\* a variant of CleanupOrphanedSessions that passes over the revoked sessions
CleanupOrphanedSessionsLive(p, acct) ==
  /\ loc[p] = Idle
  /\ NoneDone
  /\ CanWrite(p)
  /\ LET sevenDaysAgo == now - ORPHAN_RETENTION_DAYS * DAY
     IN sessions' =
          { s \in sessions :
              ~ (OfAccount(s, acct) /\ s.lastActivity < sevenDaysAgo /\ ~s.revoked) }
  /\ UNCHANGED <<now, ticksLeft, nextId, idsLeft, refreshTokens, tokenBlacklist, loc>>
  /\ UNCHANGED otpTables
  /\ UNCHANGED rateTables
  /\ UNCHANGED auditTables

\* cleanupOrphanedSessions, lines 406-426: one delete for the id given
CleanupOrphanedSessions(p, acct) ==
  /\ loc[p] = Idle
  /\ NoneDone
  /\ CanWrite(p)
  /\ LET sevenDaysAgo == now - ORPHAN_RETENTION_DAYS * DAY
     IN sessions' =
          { s \in sessions : ~ (OfAccount(s, acct) /\ s.lastActivity < sevenDaysAgo) }
  /\ UNCHANGED <<now, ticksLeft, nextId, idsLeft, refreshTokens, tokenBlacklist, loc>>
  /\ UNCHANGED otpTables
  /\ UNCHANGED rateTables
  /\ UNCHANGED auditTables

----------------------------------------------------------------------------
(***************************************************************************)
(* The token service under concurrent request handlers                     *)
(***************************************************************************)
\* every secret that has been issued so far, and one that never was
Secrets == 1..nextId

TokenNext(handlers, accounts, jumps, fingerprints) ==
  \/ \E d \in jumps : Tick(d)
  \/ \E p \in handlers : Return(p)
  \/ \E p \in handlers, acct \in accounts, fp \in fingerprints :
       \E family \in {NoFamily} \cup AccountFamilies(acct) :
         GenerateTokenPair(p, acct, fp, family)
  \/ \E p \in handlers, secret \in Secrets, fp \in fingerprints :
       RotateRefreshToken(p, secret, fp)
  \/ \E p \in handlers, acct \in accounts : RevokeAllTokens(p, acct)
  \/ \E p \in handlers, acct \in accounts, m \in MaxDevicesChoices :
       EnforceDeviceLimit(p, acct, m)
  \/ \E p \in handlers : CleanupExpiredTokens(p)
  \/ \E p \in handlers, acct \in accounts : CleanupOrphanedSessions(p, acct)

\* one handler serving the calls of one account, one call after the other,
\* each call one step
Next == TokenNext({"h1"}, {User}, Jumps, Fingerprints)

Spec == Init /\ [][Next]_vars

\* the same with one more id to spend
InitDeep ==
  /\ now = 0
  /\ ticksLeft = MaxTicks
  /\ nextId = 1
  /\ idsLeft = MaxTokens + 1
  /\ refreshTokens = {}
  /\ sessions = {}
  /\ tokenBlacklist = {}
  /\ loc = [p \in Procs |-> Idle]
  /\ otps = {}
  /\ otpLog = [wrongCodes |-> 0, verified |-> <<>>, undelivered |-> {}]
  /\ rateLimits = {}
  /\ rateLog = <<>>
  /\ auditLogs = {}

SpecDeep == InitDeep /\ [][Next]_vars

\* the devices and the clock of the specifications with more than one
\* handler or more than one account
ConcJumps == {MIN_REFRESH_INTERVAL}
ConcFingerprints == {"fpA"}

\* one handler serving the calls of a user and of a superuser, the clock
\* advancing by the refresh interval
NextAccounts == TokenNext({"h1"}, Accounts, ConcJumps, Fingerprints)

SpecAccounts == Init /\ [][NextAccounts]_vars

\* the clock around the retention of the sessions
OrphanJumps == {1, ORPHAN_RETENTION_DAYS * DAY}

\* one handler, a user and a superuser, sessions growing a week old
NextOrphans == TokenNext({"h1"}, Accounts, OrphanJumps, ConcFingerprints)

SpecOrphans == Init /\ [][NextOrphans]_vars

\* a session that has been refreshed every MIN_REFRESH_INTERVAL since its
\* start has reached MAX_REFRESH_COUNT: the rotations made
WornCount == MAX_REFRESH_COUNT

\* the i-th record of its family: all but the last have been rotated
WornRecord(i) ==
  LET r == NewRefreshToken(i, i, User.userId, User.superuserId, 1, "fpA",
                           (i - 1) * MIN_REFRESH_INTERVAL)
  IN IF i <= WornCount
       THEN [r EXCEPT !.rotatedAt = i * MIN_REFRESH_INTERVAL, !.newTokenId = i + 1]
       ELSE r

\* the store after generateTokenPair at time 0 and WornCount rotations, the
\* refresh interval after the last of them
InitWorn ==
  /\ now = (WornCount + 1) * MIN_REFRESH_INTERVAL
  /\ ticksLeft = MaxTicks
  /\ nextId = WornCount + 2
  /\ idsLeft = MaxTokens
  /\ refreshTokens = { WornRecord(i) : i \in 1..(WornCount + 1) }
  /\ sessions =
       { [ NewSession(1, User.userId, User.superuserId, 1, "fpA", 0)
             EXCEPT !.lastActivity = WornCount * MIN_REFRESH_INTERVAL,
                    !.refreshCount = WornCount ] }
  /\ tokenBlacklist = {}
  /\ loc = [p \in Procs |-> Idle]
  /\ otps = {}
  /\ otpLog = [wrongCodes |-> 0, verified |-> <<>>, undelivered |-> {}]
  /\ rateLimits = {}
  /\ rateLog = <<>>
  /\ auditLogs = {}

\* the secrets presented: the last ones issued and one that never was
WornSecrets == (nextId - 2)..nextId

WornJumps == {MIN_REFRESH_INTERVAL, REFRESH_TOKEN_EXPIRY_DAYS * DAY}

\* one handler rotating the secrets of the session, the session growing old
NextWorn ==
  \/ \E d \in WornJumps : Tick(d)
  \/ \E p \in {"h1"} : Return(p)
  \/ \E p \in {"h1"}, secret \in WornSecrets, fp \in Fingerprints :
       RotateRefreshToken(p, secret, fp)
  \/ \E p \in {"h1"} : CleanupOrphanedSessions(p, User)

SpecWorn == InitWorn /\ [][NextWorn]_vars

\* the calls statement by statement: every await of a handler is a point
\* where another handler runs
ConcNext(handlers, accounts) ==
  \/ \E d \in ConcJumps : Tick(d)
  \/ \E p \in handlers : Return(p)
  \/ \E p \in handlers, acct \in accounts, fp \in ConcFingerprints :
       \E family \in {NoFamily} \cup AccountFamilies(acct) :
         GenInsertToken(p, acct, fp, family)
  \/ \E p \in handlers : GenUpsertSession(p)
  \/ \E p \in handlers, secret \in Secrets, fp \in ConcFingerprints :
       RotateBegin(p, secret, fp)
  \/ \E p \in handlers : RotateCommit(p)
  \/ \E p \in handlers : RotateAbort(p)
  \/ \E p \in handlers, acct \in accounts : RevokeAllRecords(p, acct)
  \/ \E p \in handlers : RevokeAllSessions(p)
  \/ \E p \in handlers, acct \in accounts, m \in MaxDevicesChoices :
       EnforceRead(p, acct, m)
  \/ \E p \in handlers : EnforceRevokeSession(p)
  \/ \E p \in handlers : EnforceRevokeTokens(p)
  \/ \E p \in handlers : SweepTokens(p)
  \/ \E p \in handlers : SweepBlacklist(p)
  \/ \E p \in handlers, acct \in accounts : CleanupOrphanedSessions(p, acct)

\* two handlers serving the calls of one account side by side
NextConc == ConcNext(Procs, {User})

SpecConc == Init /\ [][NextConc]_vars

\* two handlers issuing and rotating side by side, with two more ids to spend
\* than MaxTokens
InitPace ==
  /\ now = 0
  /\ ticksLeft = MaxTicks
  /\ nextId = 1
  /\ idsLeft = MaxTokens + 2
  /\ refreshTokens = {}
  /\ sessions = {}
  /\ tokenBlacklist = {}
  /\ loc = [p \in Procs |-> Idle]
  /\ otps = {}
  /\ otpLog = [wrongCodes |-> 0, verified |-> <<>>, undelivered |-> {}]
  /\ rateLimits = {}
  /\ rateLog = <<>>
  /\ auditLogs = {}

\* the families of the sessions: those a caller has been handed
IssuedFamilies == { s.tokenFamily : s \in sessions }

NextPace ==
  \/ \E d \in ConcJumps : Tick(d)
  \/ \E p \in Procs : Return(p)
  \/ \E p \in Procs, family \in {NoFamily} \cup IssuedFamilies :
       GenInsertToken(p, User, "fpA", family)
  \/ \E p \in Procs : GenUpsertSession(p)
  \/ \E p \in Procs, secret \in Secrets : RotateBegin(p, secret, "fpA")
  \/ \E p \in Procs : RotateCommit(p)

SpecPace == InitPace /\ [][NextPace]_vars

----------------------------------------------------------------------------
(***************************************************************************)
(* otp-service and the helpers of security.ts it calls                     *)
(***************************************************************************)
\* a phone number as typed: a sequence of characters, the digits 0..9 and
\* NonDigit for any other character; Plus is the leading '+' of E.164
NonDigit == 10
Plus == 11
CountryCode == <<1>>

\* the exception of normalizePhoneNumber
InvalidPhone == <<>>

StartsWith(str, prefix) ==
  Len(str) >= Len(prefix) /\ SubSeq(str, 1, Len(prefix)) = prefix

\* security.ts lines 3-21
normalizePhoneNumber(input, defaultCountryCode) ==
  LET stripped == SelectSeq(input, LAMBDA c : c # NonDigit)
      digits == IF Len(stripped) > 10
                  THEN SubSeq(stripped, 1, IF Len(stripped) < 15 THEN Len(stripped) ELSE 15)
                  ELSE stripped
      full == IF ~StartsWith(digits, defaultCountryCode) /\ Len(digits) = 10
                THEN defaultCountryCode \o digits
                ELSE digits
  IN IF Len(full) >= 2 /\ Len(full) <= 15 /\ full[1] # 0
       THEN <<Plus>> \o full
       ELSE InvalidPhone

\* security.ts lines 39-41: SHA-256 of the code (collision-free on the codes in use)
hashOTP(otp) == <<"sha256", otp>>

\* what callers pass: a number in two spellings, a number with a leading 0
PhoneInputs ==
  { <<5, 5, 5, 0, 1, 0, 0, 0, 0, 1>>,
    <<1, NonDigit, 5, 5, 5, NonDigit, 0, 1, 0, NonDigit, 0, 0, 0, 1>>,
    <<0, 5>> }

\* the codes generateOTP draws and callers type
Codes == {"123456", "654321"}

\* the amounts by which the clock is seen to advance between two steps
OtpJumps == {OTP_COOLDOWN, OTP_EXPIRY}

\* values(...) of the insert into otps; the other columns take their defaults
NewOtp(id, phoneNumber, otpHash, t) ==
  [ id |-> id,
    phoneNumber |-> phoneNumber,
    otpHash |-> otpHash,
    expiresAt |-> t + OTP_EXPIRY,
    used |-> FALSE,
    usedAt |-> NoTime,
    usedByFingerprint |-> "none",
    attemptCount |-> 0,
    createdAt |-> t ]

\* what sendOTP returns
SendReturn(p, success, message, waitTime, otpId) ==
  loc' = [loc EXCEPT ![p] =
    [ pc |-> "done", op |-> "sendOTP", success |-> success, message |-> message,
      waitTime |-> waitTime, otpId |-> otpId ]]

\* what verifyOTP returns
VerifyReturn(p, success, message) ==
  loc' = [loc EXCEPT ![p] =
    [pc |-> "done", op |-> "verifyOTP", success |-> success, message |-> message]]

\* lines 496-514: the unused records of the phone created within the cooldown
RecentOTPs(phone) ==
  { r \in otps : r.phoneNumber = phone /\ r.createdAt > now - OTP_COOLDOWN /\ ~r.used }

\* lines 492-520: normalize, look for a recent OTP, draw the code and the id
SendCheck(p, input) ==
  /\ loc[p] = Idle
  /\ NoneDone
  /\ LET phone == normalizePhoneNumber(input, CountryCode)
     IN IF phone = InvalidPhone
          THEN /\ SendReturn(p, FALSE, "An error occurred. Please try again.", NoTime, NoId)
               /\ UNCHANGED <<nextId, idsLeft>>
        ELSE IF RecentOTPs(phone) # {}
          THEN /\ \E recentOTP \in RecentOTPs(phone) :
                    SendReturn(p, FALSE,
                      "OTP already sent. Check your SMS or wait before requesting again.",
                      OTP_COOLDOWN - (now - recentOTP.createdAt), NoId)
               /\ UNCHANGED <<nextId, idsLeft>>
        ELSE /\ idsLeft > 0
             /\ \E otp \in Codes :
                  loc' = [loc EXCEPT ![p] =
                    [pc |-> "send_sms", phone |-> phone, otp |-> otp, otpId |-> nextId]]
             /\ nextId' = nextId + 1
             /\ idsLeft' = idsLeft - 1
  /\ UNCHANGED <<now, ticksLeft, otps, otpLog>>
  /\ UNCHANGED tokenTables
  /\ UNCHANGED rateTables
  /\ UNCHANGED auditTables

\* a variant of SendSms that stores the record before the SMS is sent
SendSmsStoresFirst(p, delivered) ==
  /\ loc[p].pc = "send_sms"
  /\ NoneDone
  /\ otps' = otps \cup {NewOtp(loc[p].otpId, loc[p].phone, hashOTP(loc[p].otp), now)}
  /\ IF delivered
       THEN /\ loc' = [loc EXCEPT ![p].pc = "send_insert"]
            /\ UNCHANGED otpLog
       ELSE /\ SendReturn(p, FALSE, "Failed to send SMS. Please try again.", NoTime, NoId)
            /\ otpLog' = [otpLog EXCEPT !.undelivered = @ \cup {loc[p].otpId}]
  /\ UNCHANGED <<now, ticksLeft, nextId, idsLeft>>
  /\ UNCHANGED tokenTables
  /\ UNCHANGED rateTables
  /\ UNCHANGED auditTables

\* lines 522-546: the SMS is sent, or the send fails or does not complete
\* within the 10 seconds of the race; otpLog keeps the id drawn for a call
\* whose SMS was not delivered
SendSms(p, delivered) ==
  /\ loc[p].pc = "send_sms"
  /\ NoneDone
  /\ IF delivered
       THEN /\ loc' = [loc EXCEPT ![p].pc = "send_insert"]
            /\ UNCHANGED otpLog
       ELSE /\ SendReturn(p, FALSE, "Failed to send SMS. Please try again.", NoTime, NoId)
            /\ otpLog' = [otpLog EXCEPT !.undelivered = @ \cup {loc[p].otpId}]
  /\ UNCHANGED <<now, ticksLeft, nextId, idsLeft, otps>>
  /\ UNCHANGED tokenTables
  /\ UNCHANGED rateTables
  /\ UNCHANGED auditTables

\* lines 548-562: the record is stored
SendInsert(p) ==
  /\ loc[p].pc = "send_insert"
  /\ NoneDone
  /\ CanWrite(p)
  /\ otps' = otps \cup {NewOtp(loc[p].otpId, loc[p].phone, hashOTP(loc[p].otp), now)}
  /\ otpLog' = [ otpLog EXCEPT !.wrongCodes = 0,
                                !.verified = @ @@ (loc[p].otpId :> 0) ]
  /\ SendReturn(p, TRUE, "OTP sent successfully", NoTime, loc[p].otpId)
  /\ UNCHANGED <<now, ticksLeft, nextId, idsLeft>>
  /\ UNCHANGED tokenTables
  /\ UNCHANGED rateTables
  /\ UNCHANGED auditTables

\* lines 600-606: the unused records of the phone with the digest of the code
MatchingOTPs(phone, otpHash) ==
  { r \in otps : r.phoneNumber = phone /\ r.otpHash = otpHash /\ ~r.used }

\* the unused, unexpired records of the phone
Outstanding(phone) ==
  { r \in otps : r.phoneNumber = phone /\ ~r.used /\ now <= r.expiresAt }

\* the arguments of a verifyOTP call and the record its transaction has read
VerifyCall(phone, otp, fingerprint, otpRecord) ==
  [ pc |-> "verify_tx", phone |-> phone, otpHash |-> hashOTP(otp),
    fingerprint |-> fingerprint, otpRecord |-> otpRecord ]

\* findFirst: no row, or one of the rows that match
FindFirst(rows) == IF rows = {} THEN {{}} ELSE { {r} : r \in rows }

\* a variant of VerifyBody that marks the record before it looks at expiresAt
VerifyBodyMarksFirst(p, call) ==
  IF call.otpRecord = {}
    THEN /\ Outstanding(call.phone) # {} => otpLog.wrongCodes < MaxWrongCodes
         /\ otpLog' = IF Outstanding(call.phone) # {}
                        THEN [otpLog EXCEPT !.wrongCodes = @ + 1] ELSE otpLog
         /\ VerifyReturn(p, FALSE, "Invalid or already used OTP")
         /\ UNCHANGED otps
    ELSE \E otpRecord \in call.otpRecord :
      IF otpRecord.attemptCount >= MAX_ATTEMPTS
        THEN /\ VerifyReturn(p, FALSE, "Too many failed attempts. Please request a new OTP.")
             /\ UNCHANGED <<otps, otpLog>>
      ELSE /\ otps' =
                { IF r.id = otpRecord.id
                    THEN [r EXCEPT !.used = TRUE, !.usedAt = now,
                                   !.usedByFingerprint = call.fingerprint]
                    ELSE r
                  : r \in otps }
           /\ IF now > otpRecord.expiresAt
                THEN /\ VerifyReturn(p, FALSE, "OTP has expired. Please request a new one.")
                     /\ UNCHANGED otpLog
                ELSE /\ otpLog' = [otpLog EXCEPT !.verified[otpRecord.id] = @ + 1]
                     /\ VerifyReturn(p, TRUE, "OTP verified successfully")

\* lines 608-646: the body of the transaction callback after the read
VerifyBody(p, call) ==
  IF call.otpRecord = {}
    THEN /\ Outstanding(call.phone) # {} => otpLog.wrongCodes < MaxWrongCodes
         /\ otpLog' = IF Outstanding(call.phone) # {}
                        THEN [otpLog EXCEPT !.wrongCodes = @ + 1] ELSE otpLog
         /\ VerifyReturn(p, FALSE, "Invalid or already used OTP")
         /\ UNCHANGED otps
    ELSE \E otpRecord \in call.otpRecord :
      IF now > otpRecord.expiresAt
        THEN /\ VerifyReturn(p, FALSE, "OTP has expired. Please request a new one.")
             /\ UNCHANGED <<otps, otpLog>>
      ELSE IF otpRecord.attemptCount >= MAX_ATTEMPTS
        THEN /\ VerifyReturn(p, FALSE, "Too many failed attempts. Please request a new OTP.")
             /\ UNCHANGED <<otps, otpLog>>
      ELSE /\ otps' =
                { IF r.id = otpRecord.id
                    THEN [r EXCEPT !.used = TRUE, !.usedAt = now,
                                   !.usedByFingerprint = call.fingerprint]
                    ELSE r
                  : r \in otps }
           /\ otpLog' = [otpLog EXCEPT !.verified[otpRecord.id] = @ + 1]
           /\ VerifyReturn(p, TRUE, "OTP verified successfully")

\* lines 648-668: a statement of the callback throws; the transaction is
\* rolled back, the catch increments attempt_count of the unused records of
\* the phone (unless that update throws as well) and returns an error result
VerifyCatch(p, phone, updated) ==
  /\ IF updated
       THEN /\ \A r \in otps : r.attemptCount < MaxAttemptCount
            /\ otps' = { IF r.phoneNumber = phone /\ ~r.used
                           THEN [r EXCEPT !.attemptCount = @ + 1] ELSE r
                         : r \in otps }
       ELSE UNCHANGED otps
  /\ VerifyReturn(p, FALSE, "An error occurred. Please try again.")
  /\ UNCHANGED otpLog

\* lines 586-669, the whole call.  normalizePhoneNumber throws on a bad
\* number: the catch calls it again, it throws again, and nothing is written
VerifyOTP(p, input, otp, fingerprint) ==
  /\ loc[p] = Idle
  /\ NoneDone
  /\ LET phone == normalizePhoneNumber(input, CountryCode)
     IN IF phone = InvalidPhone
          THEN /\ VerifyReturn(p, FALSE, "An error occurred. Please try again.")
               /\ UNCHANGED <<otps, otpLog>>
          ELSE /\ TxLockFree
               /\ \E otpRecord \in FindFirst(MatchingOTPs(phone, hashOTP(otp))) :
                    VerifyBody(p, VerifyCall(phone, otp, fingerprint, otpRecord))
  /\ UNCHANGED <<now, ticksLeft, nextId, idsLeft>>
  /\ UNCHANGED tokenTables
  /\ UNCHANGED rateTables
  /\ UNCHANGED auditTables

\* the whole call when a statement of its transaction throws
VerifyOTPThrows(p, input, updated) ==
  /\ loc[p] = Idle
  /\ NoneDone
  /\ normalizePhoneNumber(input, CountryCode) # InvalidPhone
  /\ TxLockFree
  /\ VerifyCatch(p, normalizePhoneNumber(input, CountryCode), updated)
  /\ UNCHANGED <<now, ticksLeft, nextId, idsLeft>>
  /\ UNCHANGED tokenTables
  /\ UNCHANGED rateTables
  /\ UNCHANGED auditTables

\* a variant of VerifyBegin that does not wait for the open transaction of
\* another handler
VerifyBeginNoLock(p, input, otp, fingerprint) ==
  /\ loc[p] = Idle
  /\ NoneDone
  /\ LET phone == normalizePhoneNumber(input, CountryCode)
     IN IF phone = InvalidPhone
          THEN VerifyReturn(p, FALSE, "An error occurred. Please try again.")
          ELSE \E otpRecord \in FindFirst(MatchingOTPs(phone, hashOTP(otp))) :
                 loc' = [loc EXCEPT ![p] = VerifyCall(phone, otp, fingerprint, otpRecord)]
  /\ UNCHANGED <<now, ticksLeft, nextId, idsLeft, otps, otpLog>>
  /\ UNCHANGED tokenTables
  /\ UNCHANGED rateTables
  /\ UNCHANGED auditTables

\* the same call in steps, for the handlers that run side by side.
\* Lines 586-606: normalize, hash the code, open the transaction and read
VerifyBegin(p, input, otp, fingerprint) ==
  /\ loc[p] = Idle
  /\ NoneDone
  /\ LET phone == normalizePhoneNumber(input, CountryCode)
     IN IF phone = InvalidPhone
          THEN VerifyReturn(p, FALSE, "An error occurred. Please try again.")
          ELSE /\ TxLockFree
               /\ \E otpRecord \in FindFirst(MatchingOTPs(phone, hashOTP(otp))) :
                    loc' = [loc EXCEPT ![p] = VerifyCall(phone, otp, fingerprint, otpRecord)]
  /\ UNCHANGED <<now, ticksLeft, nextId, idsLeft, otps, otpLog>>
  /\ UNCHANGED tokenTables
  /\ UNCHANGED rateTables
  /\ UNCHANGED auditTables

\* lines 608-646: the rest of the callback, and the commit
VerifyCommit(p) ==
  /\ loc[p].pc = "verify_tx"
  /\ NoneDone
  /\ VerifyBody(p, loc[p])
  /\ UNCHANGED <<now, ticksLeft, nextId, idsLeft>>
  /\ UNCHANGED tokenTables
  /\ UNCHANGED rateTables
  /\ UNCHANGED auditTables

\* lines 648-668: a statement of the callback throws
VerifyAbort(p, updated) ==
  /\ loc[p].pc = "verify_tx"
  /\ NoneDone
  /\ VerifyCatch(p, loc[p].phone, updated)
  /\ UNCHANGED <<now, ticksLeft, nextId, idsLeft>>
  /\ UNCHANGED tokenTables
  /\ UNCHANGED rateTables
  /\ UNCHANGED auditTables

\* lines 675-698, the whole call: the loop of batches
CleanupExpiredOTPs(p) ==
  /\ loc[p] = Idle
  /\ NoneDone
  /\ CanWrite(p)
  /\ otps' = SweepLoop(otps, now)
  /\ UNCHANGED <<now, ticksLeft, nextId, idsLeft, loc, otpLog>>
  /\ UNCHANGED tokenTables
  /\ UNCHANGED rateTables
  /\ UNCHANGED auditTables

OtpNext(handlers) ==
  \/ \E d \in OtpJumps : Tick(d)
  \/ \E p \in handlers : Return(p)
  \/ \E p \in handlers, input \in PhoneInputs : SendCheck(p, input)
  \/ \E p \in handlers, delivered \in BOOLEAN : SendSms(p, delivered)
  \/ \E p \in handlers : SendInsert(p)
  \/ \E p \in handlers, input \in PhoneInputs, otp \in Codes, fp \in Fingerprints :
       VerifyOTP(p, input, otp, fp)
  \/ \E p \in handlers, input \in PhoneInputs, updated \in BOOLEAN :
       VerifyOTPThrows(p, input, updated)
  \/ \E p \in handlers : CleanupExpiredOTPs(p)

\* one handler serving the OTP calls, one call after the other
NextOtp == OtpNext({"h1"})

\* the OTP service issues its first MaxOtps codes
InitOtp ==
  /\ now = 0
  /\ ticksLeft = MaxTicks
  /\ nextId = 1
  /\ idsLeft = MaxOtps
  /\ refreshTokens = {}
  /\ sessions = {}
  /\ tokenBlacklist = {}
  /\ loc = [p \in Procs |-> Idle]
  /\ otps = {}
  /\ otpLog = [wrongCodes |-> 0, verified |-> <<>>, undelivered |-> {}]
  /\ rateLimits = {}
  /\ rateLog = <<>>
  /\ auditLogs = {}

SpecOtp == InitOtp /\ [][NextOtp]_vars

\* the OTP service with one more code to issue
InitOtpDeep ==
  /\ now = 0
  /\ ticksLeft = MaxTicks
  /\ nextId = 1
  /\ idsLeft = MaxOtps + 1
  /\ refreshTokens = {}
  /\ sessions = {}
  /\ tokenBlacklist = {}
  /\ loc = [p \in Procs |-> Idle]
  /\ otps = {}
  /\ otpLog = [wrongCodes |-> 0, verified |-> <<>>, undelivered |-> {}]
  /\ rateLimits = {}
  /\ rateLog = <<>>
  /\ auditLogs = {}

\* sendOTP has stored two records for one phone, the second one when the
\* cooldown of the first was over; the callers are about to type codes
VerifyPhone == normalizePhoneNumber(<<5, 5, 5, 0, 1, 0, 0, 0, 0, 1>>, CountryCode)

\* the callers type the number in one spelling, or a number with a leading 0,
\* and the clock is seen to advance by the lifetime of a code
VerifyInputs == { <<5, 5, 5, 0, 1, 0, 0, 0, 0, 1>>, <<0, 5>> }
VerifyJumps == {OTP_EXPIRY}

InitVerify ==
  /\ now = OTP_COOLDOWN
  /\ ticksLeft = MaxTicks
  /\ nextId = 3
  /\ idsLeft = 0
  /\ refreshTokens = {}
  /\ sessions = {}
  /\ tokenBlacklist = {}
  /\ loc = [p \in Procs |-> Idle]
  /\ \E first \in Codes, second \in Codes :
       otps = { NewOtp(1, VerifyPhone, hashOTP(first), 0),
                NewOtp(2, VerifyPhone, hashOTP(second), OTP_COOLDOWN) }
  /\ otpLog = [wrongCodes |-> 0, verified |-> (1 :> 0) @@ (2 :> 0), undelivered |-> {}]
  /\ rateLimits = {}
  /\ rateLog = <<>>
  /\ auditLogs = {}

\* one handler serving the verifications and the sweep, one call after the other
NextVerify ==
  \/ \E d \in VerifyJumps : Tick(d)
  \/ \E p \in {"h1"} : Return(p)
  \/ \E p \in {"h1"}, input \in VerifyInputs, otp \in Codes, fp \in Fingerprints :
       VerifyOTP(p, input, otp, fp)
  \/ \E p \in {"h1"}, input \in VerifyInputs, updated \in BOOLEAN :
       VerifyOTPThrows(p, input, updated)
  \/ \E p \in {"h1"} : CleanupExpiredOTPs(p)

SpecVerify == InitVerify /\ [][NextVerify]_vars

\* two handlers serving sendOTP calls side by side, statement by statement
SendNext(handlers) ==
  \/ \E d \in OtpJumps : Tick(d)
  \/ \E p \in handlers : Return(p)
  \/ \E p \in handlers, input \in PhoneInputs : SendCheck(p, input)
  \/ \E p \in handlers, delivered \in BOOLEAN : SendSms(p, delivered)
  \/ \E p \in handlers : SendInsert(p)
  \/ \E p \in handlers : CleanupExpiredOTPs(p)

NextSend == SendNext(Procs)

SpecSend == InitOtpDeep /\ [][NextSend]_vars

\* side by side the handlers see the clock advance by the cooldown
ConcOtpJumps == {OTP_COOLDOWN}

\* the verifications statement by statement, two handlers side by side
OtpConcNext(handlers) ==
  \/ \E d \in ConcOtpJumps : Tick(d)
  \/ \E p \in handlers : Return(p)
  \/ \E p \in handlers, input \in PhoneInputs : SendCheck(p, input)
  \/ \E p \in handlers, delivered \in BOOLEAN : SendSms(p, delivered)
  \/ \E p \in handlers : SendInsert(p)
  \/ \E p \in handlers, input \in PhoneInputs, otp \in Codes, fp \in ConcFingerprints :
       VerifyBegin(p, input, otp, fp)
  \/ \E p \in handlers : VerifyCommit(p)
  \/ \E p \in handlers, updated \in BOOLEAN : VerifyAbort(p, updated)
  \/ \E p \in handlers : CleanupExpiredOTPs(p)

NextOtpConc == OtpConcNext(Procs)

SpecOtpConc == InitOtp /\ [][NextOtpConc]_vars

----------------------------------------------------------------------------
(***************************************************************************)
(* rate limiter (part_002)                                                 *)
(***************************************************************************)
\* part_002 lines 11-36, windowMs in seconds
RATE_LIMIT_CONFIGS ==
  [ endpoint \in { "auth:send-otp", "auth:verify-otp", "auth:login", "auth:refresh",
                   "api:general", "appointment:create" } |->
      CASE endpoint = "auth:send-otp"      -> [windowMs |-> 60, maxRequests |-> 3]
        [] endpoint = "auth:verify-otp"    -> [windowMs |-> 60, maxRequests |-> 5]
        [] endpoint = "auth:login"         -> [windowMs |-> 15 * 60, maxRequests |-> 10]
        [] endpoint = "auth:refresh"       -> [windowMs |-> 60, maxRequests |-> 20]
        [] endpoint = "api:general"        -> [windowMs |-> 60, maxRequests |-> 100]
        [] endpoint = "appointment:create" -> [windowMs |-> 60, maxRequests |-> 5] ]

\* line 52: RATE_LIMIT_CONFIGS[endpoint] || RATE_LIMIT_CONFIGS['api:general']
ConfigOf(endpoint) ==
  IF endpoint \in DOMAIN RATE_LIMIT_CONFIGS
    THEN RATE_LIMIT_CONFIGS[endpoint]
    ELSE RATE_LIMIT_CONFIGS["api:general"]

\* the (identifier, endpoint) pairs callers pass; "export:csv" has no entry
\* in RATE_LIMIT_CONFIGS
RateKeys ==
  { <<"10.0.0.1", "auth:send-otp">>,
    <<"10.0.0.2", "auth:send-otp">>,
    <<"10.0.0.2", "export:csv">> }

\* the amounts by which the clock is seen to advance between two steps
RateJumps == {20, 60, DAY}

\* a field of RateLimitResult that is left out
NoCount == 0 - 1

\* values(...) of the insert into rate_limits, lines 90-97
NewRateLimit(id, identifier, endpoint, t) ==
  [ id |-> id,
    identifier |-> identifier,
    endpoint |-> endpoint,
    requestCount |-> 1,
    windowStart |-> t,
    lastRequest |-> t ]

\* what checkRateLimit returns
RateReturn(p, allowed, remainingRequests, resetTime) ==
  loc' = [loc EXCEPT ![p] =
    [ pc |-> "done", op |-> "checkRateLimit", allowed |-> allowed,
      remainingRequests |-> remainingRequests, resetTime |-> resetTime ]]

\* a variant of InWindow that keeps a window open at now - windowMs
InWindowInclusive(identifier, endpoint, t) ==
  { r \in rateLimits : /\ r.identifier = identifier
                       /\ r.endpoint = endpoint
                       /\ r.windowStart >= t - ConfigOf(endpoint).windowMs }

\* lines 54-63: the records of the pair whose window started after now - windowMs
InWindow(identifier, endpoint, t) ==
  { r \in rateLimits : /\ r.identifier = identifier
                       /\ r.endpoint = endpoint
                       /\ r.windowStart > t - ConfigOf(endpoint).windowMs }

\* the arguments of a checkRateLimit call, its now and the record it has read
RateCall(identifier, endpoint, t, existing) ==
  [ pc |-> "rate_write", identifier |-> identifier, endpoint |-> endpoint,
    at |-> t, existing |-> existing ]

\* a variant of RateBody that denies one request later
RateBodyOneMore(p, call) ==
  LET config == ConfigOf(call.endpoint) IN
  IF call.existing # {}
    THEN \E existing \in call.existing :
      IF existing.requestCount > config.maxRequests
        THEN /\ RateReturn(p, FALSE, 0, existing.windowStart + config.windowMs)
             /\ UNCHANGED <<rateLimits, rateLog, nextId, idsLeft>>
        ELSE /\ existing.requestCount < MaxRequestCount
             /\ rateLimits' =
                  { IF r.id = existing.id
                      THEN [r EXCEPT !.requestCount = existing.requestCount + 1,
                                     !.lastRequest = call.at]
                      ELSE r
                    : r \in rateLimits }
             /\ rateLog' = [rateLog EXCEPT ![existing.id] = @ + 1]
             /\ RateReturn(p, TRUE, config.maxRequests - existing.requestCount - 1,
                           existing.windowStart + config.windowMs)
             /\ UNCHANGED <<nextId, idsLeft>>
    ELSE /\ idsLeft > 0
         /\ rateLimits' = rateLimits \cup
              {NewRateLimit(nextId, call.identifier, call.endpoint, call.at)}
         /\ rateLog' = rateLog @@ (nextId :> 1)
         /\ nextId' = nextId + 1
         /\ idsLeft' = idsLeft - 1
         /\ RateReturn(p, TRUE, config.maxRequests - 1, call.at + config.windowMs)

\* a variant of RateBody that records the time of a denied request
RateBodyTouchesOnDeny(p, call) ==
  LET config == ConfigOf(call.endpoint) IN
  IF call.existing # {}
    THEN \E existing \in call.existing :
      IF existing.requestCount >= config.maxRequests
        THEN /\ RateReturn(p, FALSE, 0, existing.windowStart + config.windowMs)
             /\ rateLimits' =
                  { IF r.id = existing.id THEN [r EXCEPT !.lastRequest = call.at] ELSE r
                    : r \in rateLimits }
             /\ UNCHANGED <<rateLog, nextId, idsLeft>>
        ELSE /\ existing.requestCount < MaxRequestCount
             /\ rateLimits' =
                  { IF r.id = existing.id
                      THEN [r EXCEPT !.requestCount = existing.requestCount + 1,
                                     !.lastRequest = call.at]
                      ELSE r
                    : r \in rateLimits }
             /\ rateLog' = [rateLog EXCEPT ![existing.id] = @ + 1]
             /\ RateReturn(p, TRUE, config.maxRequests - existing.requestCount - 1,
                           existing.windowStart + config.windowMs)
             /\ UNCHANGED <<nextId, idsLeft>>
    ELSE /\ idsLeft > 0
         /\ rateLimits' = rateLimits \cup
              {NewRateLimit(nextId, call.identifier, call.endpoint, call.at)}
         /\ rateLog' = rateLog @@ (nextId :> 1)
         /\ nextId' = nextId + 1
         /\ idsLeft' = idsLeft - 1
         /\ RateReturn(p, TRUE, config.maxRequests - 1, call.at + config.windowMs)

\* lines 65-103: what follows the read: deny, increment, or create
RateBody(p, call) ==
  LET config == ConfigOf(call.endpoint) IN
  IF call.existing # {}
    THEN \E existing \in call.existing :
      IF existing.requestCount >= config.maxRequests
        THEN /\ RateReturn(p, FALSE, 0, existing.windowStart + config.windowMs)
             /\ UNCHANGED <<rateLimits, rateLog, nextId, idsLeft>>
        ELSE /\ existing.requestCount < MaxRequestCount
             /\ rateLimits' =
                  { IF r.id = existing.id
                      THEN [r EXCEPT !.requestCount = existing.requestCount + 1,
                                     !.lastRequest = call.at]
                      ELSE r
                    : r \in rateLimits }
             /\ rateLog' = [rateLog EXCEPT ![existing.id] = @ + 1]
             /\ RateReturn(p, TRUE, config.maxRequests - existing.requestCount - 1,
                           existing.windowStart + config.windowMs)
             /\ UNCHANGED <<nextId, idsLeft>>
    ELSE /\ idsLeft > 0
         /\ rateLimits' = rateLimits \cup
              {NewRateLimit(nextId, call.identifier, call.endpoint, call.at)}
         /\ rateLog' = rateLog @@ (nextId :> 1)
         /\ nextId' = nextId + 1
         /\ idsLeft' = idsLeft - 1
         /\ RateReturn(p, TRUE, config.maxRequests - 1, call.at + config.windowMs)

\* a variant of RateCatch that passes the failure on to the caller
RateCatchFailClosed(p) ==
  /\ RateReturn(p, FALSE, NoCount, NoTime)
  /\ UNCHANGED <<rateLimits, rateLog, nextId, idsLeft>>

\* lines 104-108: a read or a write of the store throws: nothing is written,
\* the catch returns {allowed: true}
RateCatch(p) ==
  /\ RateReturn(p, TRUE, NoCount, NoTime)
  /\ UNCHANGED <<rateLimits, rateLog, nextId, idsLeft>>

\* lines 47-109, the whole call
CheckRateLimit(p, identifier, endpoint) ==
  /\ loc[p] = Idle
  /\ NoneDone
  /\ \E existing \in FindFirst(InWindow(identifier, endpoint, now)) :
       RateBody(p, RateCall(identifier, endpoint, now, existing))
  /\ UNCHANGED <<now, ticksLeft>>
  /\ UNCHANGED tokenTables
  /\ UNCHANGED otpTables
  /\ UNCHANGED auditTables

\* the whole call when the read or the write of the store throws
CheckRateLimitThrows(p, identifier, endpoint) ==
  /\ loc[p] = Idle
  /\ NoneDone
  /\ RateCatch(p)
  /\ UNCHANGED <<now, ticksLeft>>
  /\ UNCHANGED tokenTables
  /\ UNCHANGED otpTables
  /\ UNCHANGED auditTables

\* the same call in steps.  Lines 52-63: the configuration, now and the read
RateRead(p, identifier, endpoint) ==
  /\ loc[p] = Idle
  /\ NoneDone
  /\ \E existing \in FindFirst(InWindow(identifier, endpoint, now)) :
       loc' = [loc EXCEPT ![p] = RateCall(identifier, endpoint, now, existing)]
  /\ UNCHANGED <<now, ticksLeft, nextId, idsLeft>>
  /\ UNCHANGED rateTables
  /\ UNCHANGED tokenTables
  /\ UNCHANGED otpTables
  /\ UNCHANGED auditTables

\* lines 65-103: the write and the return
RateWrite(p) ==
  /\ loc[p].pc = "rate_write"
  /\ NoneDone
  /\ RateBody(p, loc[p])
  /\ UNCHANGED <<now, ticksLeft>>
  /\ UNCHANGED tokenTables
  /\ UNCHANGED otpTables
  /\ UNCHANGED auditTables

\* lines 104-108: the write throws
RateAbort(p) ==
  /\ loc[p].pc = "rate_write"
  /\ NoneDone
  /\ RateCatch(p)
  /\ UNCHANGED <<now, ticksLeft>>
  /\ UNCHANGED tokenTables
  /\ UNCHANGED otpTables
  /\ UNCHANGED auditTables

\* lines 114-121: DELETE FROM rate_limits WHERE window_start < now - one day
CleanupRateLimits(p) ==
  /\ loc[p] = Idle
  /\ NoneDone
  /\ rateLimits' = { r \in rateLimits : ~(r.windowStart < now - DAY) }
  /\ UNCHANGED <<now, ticksLeft, nextId, idsLeft, loc, rateLog>>
  /\ UNCHANGED tokenTables
  /\ UNCHANGED otpTables
  /\ UNCHANGED auditTables

RateNext(handlers) ==
  \/ \E d \in RateJumps : Tick(d)
  \/ \E p \in handlers : Return(p)
  \/ \E p \in handlers, key \in RateKeys : CheckRateLimit(p, key[1], key[2])
  \/ \E p \in handlers, key \in RateKeys : CheckRateLimitThrows(p, key[1], key[2])
  \/ \E p \in handlers : CleanupRateLimits(p)

\* one handler serving the rate-limit calls, one call after the other
NextRate == RateNext({"h1"})

SpecRate == Init /\ [][NextRate]_vars

\* the pairs and the clock of the handlers that run side by side
ConcRateKeys == { <<"10.0.0.1", "auth:send-otp">> }
ConcRateJumps == {30}

\* the calls statement by statement, two handlers side by side
RateConcNext(handlers) ==
  \/ \E d \in ConcRateJumps : Tick(d)
  \/ \E p \in handlers : Return(p)
  \/ \E p \in handlers, key \in ConcRateKeys : RateRead(p, key[1], key[2])
  \/ \E p \in handlers : RateWrite(p)
  \/ \E p \in handlers : RateAbort(p)
  \/ \E p \in handlers, key \in ConcRateKeys : CheckRateLimitThrows(p, key[1], key[2])
  \/ \E p \in handlers : CleanupRateLimits(p)

NextRateConc == RateConcNext(Procs)

SpecRateConc == Init /\ [][NextRateConc]_vars

----------------------------------------------------------------------------
(***************************************************************************)
(* Access tokens: verifyAccessToken, the blacklist and the authentication  *)
(* of POST /api/companies                                                  *)
(***************************************************************************)
ACCESS_TOKEN_EXPIRY == 15 * 60
CLOCK_SKEW_SECONDS == 30

\* the signing key of the service and a key it does not have
JWT_SECRET == "JWT_SECRET"
OtherKey == "another key"

Jtis == {"jti1", "jti2"}

\* jwt.sign(payload, key, {expiresIn: ACCESS_TOKEN_EXPIRY}) at time t
SignAccessToken(acct, jti, key, t) ==
  [ userId |-> acct.userId, superuserId |-> acct.superuserId, jti |-> jti,
    iat |-> t, exp |-> t + ACCESS_TOKEN_EXPIRY, key |-> key ]

\* the tokens a client presents: signed at time 0 for a user or a superuser,
\* by the service or by somebody else
AccessTokens ==
  { SignAccessToken(acct, jti, key, 0) :
      acct \in Accounts, jti \in Jtis, key \in {JWT_SECRET, OtherKey} }

\* the payload jwt.verify returns
Claims(token) ==
  [ userId |-> token.userId, superuserId |-> token.superuserId, jti |-> token.jti,
    iat |-> token.iat, exp |-> token.exp ]

\* null, and a request without Authorization header
Null == [jti |-> "null"]
NoToken == [jti |-> "none"]

\* jwt.verify(token, key, {clockTolerance}) at time t: the signature is
\* checked first, then exp; the token is expired from exp + clockTolerance on
JwtVerify(token, key, clockTolerance, t) ==
  IF token.key # key THEN "JsonWebTokenError"
  ELSE IF t >= token.exp + clockTolerance THEN "TokenExpiredError"
  ELSE "decoded"

\* a variant of verifyAccessToken that passes no clockTolerance
verifyAccessTokenNoTolerance(token, t) ==
  LET outcome == JwtVerify(token, JWT_SECRET, 0, t)
  IN IF outcome = "decoded" THEN Claims(token)
     ELSE IF outcome = "TokenExpiredError" THEN Null
     ELSE IF outcome = "JsonWebTokenError" THEN Null
     ELSE [jti |-> "throws"]

\* lines 284-300
verifyAccessToken(token, t) ==
  LET outcome == JwtVerify(token, JWT_SECRET, CLOCK_SKEW_SECONDS, t)
  IN IF outcome = "decoded" THEN Claims(token)
     ELSE IF outcome = "TokenExpiredError" THEN Null
     ELSE IF outcome = "JsonWebTokenError" THEN Null
     ELSE [jti |-> "throws"]

\* a call of verifyAccessToken
VerifyAccessToken(p, token) ==
  /\ loc[p] = Idle
  /\ NoneDone
  /\ loc' = [loc EXCEPT ![p] =
       [ pc |-> "done", op |-> "verifyAccessToken", token |-> token,
         decoded |-> verifyAccessToken(token, now) ]]
  /\ UNCHANGED <<now, ticksLeft, nextId, idsLeft>>
  /\ UNCHANGED tokenTables
  /\ UNCHANGED otpTables
  /\ UNCHANGED rateTables
  /\ UNCHANGED auditTables

\* lines 303-309
isTokenBlacklisted(jti) == \E b \in tokenBlacklist : b.tokenJti = jti

IsTokenBlacklisted(p, jti) ==
  /\ loc[p] = Idle
  /\ NoneDone
  /\ loc' = [loc EXCEPT ![p] =
       [ pc |-> "done", op |-> "isTokenBlacklisted", jti |-> jti,
         blacklisted |-> isTokenBlacklisted(jti) ]]
  /\ UNCHANGED <<now, ticksLeft, nextId, idsLeft>>
  /\ UNCHANGED tokenTables
  /\ UNCHANGED otpTables
  /\ UNCHANGED rateTables
  /\ UNCHANGED auditTables

\* lines 312-322: one insert; token_jti is unique (schema.ts line 126), a
\* second insert of the same jti is refused and the call throws
BlacklistToken(p, jti, expiresAt) ==
  /\ loc[p] = Idle
  /\ NoneDone
  /\ CanWrite(p)
  /\ idsLeft > 0
  /\ IF \E b \in tokenBlacklist : b.tokenJti = jti
       THEN /\ loc' = [loc EXCEPT ![p] =
                 [pc |-> "done", op |-> "blacklistToken", jti |-> jti, thrown |-> TRUE]]
            /\ UNCHANGED <<nextId, idsLeft, tokenBlacklist>>
       ELSE /\ tokenBlacklist' = tokenBlacklist \cup
                 { [ id |-> nextId, tokenJti |-> jti, expiresAt |-> expiresAt,
                     createdAt |-> now ] }
            /\ nextId' = nextId + 1
            /\ idsLeft' = idsLeft - 1
            /\ loc' = [loc EXCEPT ![p] =
                 [pc |-> "done", op |-> "blacklistToken", jti |-> jti, thrown |-> FALSE]]
  /\ UNCHANGED <<now, ticksLeft, refreshTokens, sessions>>
  /\ UNCHANGED otpTables
  /\ UNCHANGED rateTables
  /\ UNCHANGED auditTables

\* companies/route.ts lines 33-51, the authentication of POST /api/companies:
\* 401 without a token, 401 when the token does not verify or is not a
\* superuser's; the rest of the handler runs for the requests that pass
CompaniesPostAuth(p, token) ==
  /\ loc[p] = Idle
  /\ NoneDone
  /\ LET decoded == IF token = NoToken THEN Null ELSE verifyAccessToken(token, now)
         status == IF token = NoToken THEN 401
                   ELSE IF decoded = Null \/ decoded.superuserId = NoUser THEN 401
                   ELSE 200
     IN loc' = [loc EXCEPT ![p] =
          [ pc |-> "done", op |-> "POST /api/companies", token |-> token,
            status |-> status, decoded |-> decoded ]]
  /\ UNCHANGED <<now, ticksLeft, nextId, idsLeft>>
  /\ UNCHANGED tokenTables
  /\ UNCHANGED otpTables
  /\ UNCHANGED rateTables
  /\ UNCHANGED auditTables

\* the clock around the expiry of an access token signed at time 0
AccessJumps == {1, ACCESS_TOKEN_EXPIRY, ACCESS_TOKEN_EXPIRY + CLOCK_SKEW_SECONDS - 1}

\* one handler: tokens are verified, blacklisted and presented to the route,
\* and the sweep of the expired tokens runs
NextAccess ==
  \/ \E d \in AccessJumps : Tick(d)
  \/ \E p \in {"h1"} : Return(p)
  \/ \E p \in {"h1"}, token \in AccessTokens : VerifyAccessToken(p, token)
  \/ \E p \in {"h1"}, jti \in Jtis : IsTokenBlacklisted(p, jti)
  \/ \E p \in {"h1"}, token \in AccessTokens : BlacklistToken(p, token.jti, token.exp)
  \/ \E p \in {"h1"}, token \in AccessTokens \cup {NoToken} : CompaniesPostAuth(p, token)
  \/ \E p \in {"h1"} : CleanupExpiredTokens(p)

SpecAccess == Init /\ [][NextAccess]_vars

----------------------------------------------------------------------------
(***************************************************************************)
(* The three services and their sweeps on one store                        *)
(***************************************************************************)
\* the clock around the validity of an OTP, a rate-limit window, a refresh token
SweepJumps == {OTP_EXPIRY, DAY, REFRESH_TOKEN_EXPIRY_DAYS * DAY}

\* the token that is blacklisted when it is signed, the phone that asks for codes
SweepJtis == {"jti1"}
SweepPhones == { <<5, 5, 5, 0, 1, 0, 0, 0, 0, 1>> }

\* one handler: the token service of one account, the blacklist, the sending
\* of OTPs, the rate limiter of one pair, and the sweeps
NextSweeps ==
  \/ TokenNext({"h1"}, {User}, SweepJumps, ConcFingerprints)
  \/ \E p \in {"h1"}, jti \in SweepJtis : BlacklistToken(p, jti, now + ACCESS_TOKEN_EXPIRY)
  \/ \E p \in {"h1"}, input \in SweepPhones : SendCheck(p, input)
  \/ \E p \in {"h1"}, delivered \in BOOLEAN : SendSms(p, delivered)
  \/ \E p \in {"h1"} : SendInsert(p)
  \/ \E p \in {"h1"}, key \in ConcRateKeys : CheckRateLimit(p, key[1], key[2])
  \/ \E p \in {"h1"} : CleanupExpiredOTPs(p)
  \/ \E p \in {"h1"} : CleanupRateLimits(p)

SpecSweeps == Init /\ [][NextSweeps]_vars

----------------------------------------------------------------------------
(***************************************************************************)
(* Properties of the rotation engine                                       *)
(***************************************************************************)
\* the call of handler p has just returned a result of rotateRefreshToken
Rotated(p) == loc[p].pc = "done" /\ loc[p].op = "rotateRefreshToken"

\* the rows of `rows` with the family of r
SameFamily(rows, r) == { x \in rows : x.tokenFamily = r.tokenFamily }

\* r is presented while neither revoked nor expired
Presentable(r) == ~r.revoked /\ now <= r.expiresAt

\* the step is the call rotateRefreshToken(s, {fingerprint: fp}) of handler p,
\* from its first read to its result
RotateStep(p, s, fp) ==
  /\ loc'[p].pc = "done"
  /\ loc'[p].op = "rotateRefreshToken"
  /\ RotateRefreshToken(p, s, fp)

\* C1: after a successful rotation that issues a new refresh secret, the
\* family of the presented record has exactly one active record, the newly
\* created one, and the presented record is still there, with rotatedAt set,
\* newTokenId the id of the new record, and revoked = false.
C1_OneActiveAfterRotation ==
  [][\A p \in Procs, s \in Secrets, fp \in Fingerprints :
       ( /\ RotateStep(p, s, fp)
         /\ loc'[p].error = NoError
         /\ loc'[p].refreshToken # s )
       => \A r \in FindByHash(s) :
            \E new \in refreshTokens' \ refreshTokens :
              /\ new.tokenHash = hashToken(loc'[p].refreshToken)
              /\ { x \in SameFamily(refreshTokens', r) : IsActive(x) } = {new}
              /\ \E old \in refreshTokens' :
                   /\ old.id = r.id
                   /\ old.rotatedAt # NoTime
                   /\ old.newTokenId = new.id
                   /\ ~old.revoked]_vars

\* C2: in every reachable state each token family contains at most one
\* active record (revoked = false and rotatedAt unset).
C2_AtMostOneActivePerFamily ==
  \A f \in Families : Cardinality(ActiveOf(f)) <= 1

\* the successor of r is there and has itself been rotated
SuccessorRotated(r) ==
  \E n \in refreshTokens : n.id = r.newTokenId /\ n.rotatedAt # NoTime

\* C3: when the secret of a record that is already rotated is presented,
\* and the grace window has elapsed since rotatedAt or the successor has
\* itself been rotated, every record of the family is revoked and no token
\* pair is returned.  (Stated for a record that is not revoked and not
\* expired, the case the first two checks of the rotation let through.)
C3_SupersededSecretRevokesFamily ==
  [][\A p \in Procs, s \in Secrets :
       \A r \in FindByHash(s) :
         ( /\ Presentable(r)
           /\ r.rotatedAt # NoTime
           /\ (now - r.rotatedAt >= GRACE_PERIOD \/ SuccessorRotated(r)) )
         => \A fp \in Fingerprints :
              RotateStep(p, s, fp)
              => /\ loc'[p].error # NoError
                 /\ \A x \in SameFamily(refreshTokens', r) : x.revoked]_vars

\* C4: when a secret is presented whose record is not revoked, not expired
\* and was rotated less than GRACE_PERIOD ago, the call returns the
\* presented secret with an access token for the account of the successor
\* record, and it creates and changes no refresh-token record and no session.
C4_GraceReturnsSameSecret ==
  [][\A p \in Procs, s \in Secrets :
       \A r \in FindByHash(s) :
         ( /\ Presentable(r)
           /\ r.rotatedAt # NoTime
           /\ now - r.rotatedAt < GRACE_PERIOD )
         => \A fp \in Fingerprints :
              RotateStep(p, s, fp)
              => /\ loc'[p].error = NoError
                 /\ loc'[p].refreshToken = s
                 /\ \E n \in refreshTokens :
                      n.id = r.newTokenId /\ loc'[p].access = AccessFor(n)
                 /\ refreshTokens' = refreshTokens
                 /\ sessions' = sessions]_vars

\* a call has returned the secret of a record rotated 5 seconds before: the
\* grace path
C4_Witness ==
  \E p \in Procs :
    /\ Rotated(p)
    /\ loc[p].error = NoError
    /\ \E r \in FindByHash(loc[p].refreshToken) :
         r.rotatedAt # NoTime /\ now - r.rotatedAt = 5

\* C5: when a secret is presented whose record is revoked, every record of
\* the family becomes revoked, the family's session becomes revoked and
\* inactive, the result is the token-revoked error, and no record is created.
C5_RevokedSecretRevokesFamily ==
  [][\A p \in Procs, s \in Secrets :
       \A r \in FindByHash(s) :
         r.revoked
         => \A fp \in Fingerprints :
              RotateStep(p, s, fp)
              => /\ loc'[p].error = "Token has been revoked"
                 /\ \A x \in SameFamily(refreshTokens', r) : x.revoked
                 /\ \A x \in SameFamily(sessions', r) : x.revoked /\ ~x.isActive
                 /\ { x.id : x \in refreshTokens' } = { x.id : x \in refreshTokens }
                 /\ { x.id : x \in sessions' } = { x.id : x \in sessions }]_vars

\* the token-revoked error has been returned for a family that has a session
\* and a record that was never rotated
C5_Witness ==
  \E p \in Procs :
    /\ Rotated(p)
    /\ loc[p].error = "Token has been revoked"
    /\ \E r \in refreshTokens :
         /\ r.revoked
         /\ r.rotatedAt = NoTime
         /\ \E x \in SameFamily(sessions, r) : x.revoked /\ ~x.isActive

\* the checks that precede the fingerprint check let the call through
PassesOtherChecks(r) ==
  /\ Presentable(r)
  /\ ~InGrace(r)
  /\ SameFamily(sessions, r) # {}
  /\ \A x \in SameFamily(sessions, r) :
       /\ now - x.lastActivity >= MIN_REFRESH_INTERVAL
       /\ now - x.sessionStarted <= REFRESH_TOKEN_EXPIRY_DAYS * DAY
       /\ x.refreshCount <= MAX_REFRESH_COUNT

\* C6: when the presented secret passes every other check but the
\* fingerprint of its record differs from the caller's, every record of the
\* family becomes revoked, the result is the device-mismatch error, and no
\* record is created.
C6_MismatchRevokesFamily ==
  [][\A p \in Procs, s \in Secrets :
       \A r \in FindByHash(s) :
         PassesOtherChecks(r)
         => \A fp \in Fingerprints \ {r.deviceFingerprint} :
              RotateStep(p, s, fp)
              => /\ loc'[p].error = "Device fingerprint mismatch"
                 /\ \A x \in SameFamily(refreshTokens', r) : x.revoked
                 /\ { x.id : x \in refreshTokens' } = { x.id : x \in refreshTokens }]_vars

\* the device-mismatch error has been returned and a family of two records
\* is revoked
C6_Witness ==
  \E p \in Procs :
    /\ Rotated(p)
    /\ loc[p].error = "Device fingerprint mismatch"
    /\ \E r \in refreshTokens :
         /\ Cardinality(SameFamily(refreshTokens, r)) = 2
         /\ \A x \in SameFamily(refreshTokens, r) : x.revoked

\* C7: a rotation that revokes a family on a theft signal (a revoked secret
\* presented again, or a fingerprint mismatch) leaves no session of that
\* family active.
C7_TheftRevokesSession ==
  [][\A p \in Procs, s \in Secrets, fp \in Fingerprints :
       ( /\ RotateStep(p, s, fp)
         /\ loc'[p].error \in {"Token has been revoked", "Device fingerprint mismatch"} )
       => \A r \in FindByHash(s) :
            \A x \in SameFamily(sessions', r) : ~x.isActive]_vars

\* C8: two rotateRefreshToken calls that present the same active secret side
\* by side never both observe the record as not yet rotated and both commit
\* a successor for it: while a call that has read the record as not yet
\* rotated is still to commit, no other call has rotated that record.
C8_OneSuccessorPerSecret ==
  \A p \in Procs :
    loc[p].pc = "rotate_tx"
    => \A observed \in loc[p].tokenRecord :
         observed.rotatedAt = NoTime
         => \A r \in refreshTokens : r.id = observed.id => r.rotatedAt = NoTime

\* one call has just been given the secret it presented, whose record
\* another call rotated in the same second
C8_Witness ==
  \E p \in Procs :
    /\ Rotated(p)
    /\ loc[p].error = NoError
    /\ \E r \in FindByHash(loc[p].refreshToken) :
         /\ r.rotatedAt = now
         /\ \E n \in refreshTokens : n.id = r.newTokenId /\ IsActive(n)

----------------------------------------------------------------------------
(***************************************************************************)
(* Properties of the OTP engine                                            *)
(***************************************************************************)
\* C9: each stored OTP record yields at most one successful verifyOTP, over
\* any sequence or interleaving of calls: the successes returned on a record
\* number at most one, and a record is used exactly when one was returned
\* (so of two calls with the phone and the code of one record, run side by
\* side, one succeeds and the other finds no unused record).
C9_OneSuccessPerOtp ==
  /\ \A id \in DOMAIN otpLog.verified : otpLog.verified[id] <= 1
  /\ \A r \in otps : r.used <=> otpLog.verified[r.id] = 1

\* a call with the phone and the code of a record has read no unused record,
\* because another call has used that record in the same second
C9_Witness ==
  \E q \in Procs :
    /\ loc[q].pc = "verify_tx"
    /\ loc[q].otpRecord = {}
    /\ \E r \in otps :
         /\ r.used
         /\ r.usedAt = now
         /\ r.phoneNumber = loc[q].phone
         /\ r.otpHash = loc[q].otpHash
         /\ otpLog.verified[r.id] = 1

\* C10: after five verifyOTP calls with wrong codes for a phone that has an
\* outstanding (unused, unexpired) OTP, the next verifyOTP call for that
\* phone returns the too-many-attempts failure, whether its code is correct
\* or wrong, and the OTP stays unused.
C10_SixthAttemptRefused ==
  [][\A p \in Procs, input \in PhoneInputs :
       ( /\ otpLog.wrongCodes >= MAX_ATTEMPTS
         /\ Outstanding(normalizePhoneNumber(input, CountryCode)) # {} )
       => \A otp \in Codes, fp \in Fingerprints :
            (loc'[p].pc = "done" /\ VerifyOTP(p, input, otp, fp))
            => /\ loc'[p].message = "Too many failed attempts. Please request a new OTP."
               /\ otps' = otps]_vars

----------------------------------------------------------------------------
(***************************************************************************)
(* Properties of sendOTP                                                   *)
(***************************************************************************)
\* C11: sendOTP stores the OTP record only after the delivery call has
\* succeeded.  While the SMS of a call is still to be sent no record with the
\* id of that call is in the store; a call whose delivery failed or timed out
\* returns a failure, and no record with its id is in the store, at the
\* return or in any later state.
C11_NoRecordWithoutDelivery ==
  /\ \A r \in otps : r.id \notin otpLog.undelivered
  /\ \A p \in Procs :
       /\ loc[p].pc = "send_sms" => \A r \in otps : r.id # loc[p].otpId
       /\ (loc[p].pc = "done" /\ loc[p].op = "sendOTP" /\ loc[p].success)
            => /\ loc[p].otpId \notin otpLog.undelivered
               /\ \E r \in otps : r.id = loc[p].otpId

\* a delivery has failed, and a later call has stored its record
C11_Witness ==
  /\ otpLog.undelivered # {}
  /\ \E r \in otps : \A id \in otpLog.undelivered : id < r.id

----------------------------------------------------------------------------
(***************************************************************************)
(* Properties of the rate limiter                                          *)
(***************************************************************************)
\* the records of a pair that a call made at the new state's time would read
InWindowAfter(identifier, endpoint) ==
  { r \in rateLimits' : /\ r.identifier = identifier
                        /\ r.endpoint = endpoint
                        /\ r.windowStart > now' - ConfigOf(endpoint).windowMs }

\* C12: for a pair with ceiling maxRequests, once maxRequests calls have been
\* allowed in a window, every further checkRateLimit call in that window (one
\* whose store operations succeed) returns allowed = false, remainingRequests
\* = 0 and resetTime = windowStart + windowMs; the k-th allowed call of a
\* window returns remainingRequests = maxRequests - k.
C12_CeilingPerWindow ==
  [][\A p \in Procs, key \in RateKeys :
       CheckRateLimit(p, key[1], key[2]) =>
         LET config == ConfigOf(key[2]) IN
         /\ \A r \in InWindow(key[1], key[2], now) :
              rateLog[r.id] >= config.maxRequests
              => /\ loc'[p].allowed = FALSE
                 /\ loc'[p].remainingRequests = 0
                 /\ loc'[p].resetTime = r.windowStart + config.windowMs
         /\ loc'[p].allowed
              => \E r \in InWindowAfter(key[1], key[2]) :
                   loc'[p].remainingRequests = config.maxRequests - rateLog'[r.id]]_vars

\* a call has been denied on a record that has allowed maxRequests calls
C12_Witness ==
  \E p \in Procs :
    /\ loc[p].pc = "done" /\ loc[p].op = "checkRateLimit"
    /\ loc[p].allowed = FALSE
    /\ loc[p].remainingRequests = 0
    /\ \E r \in rateLimits :
         /\ rateLog[r.id] = ConfigOf(r.endpoint).maxRequests
         /\ loc[p].resetTime = r.windowStart + ConfigOf(r.endpoint).windowMs

\* C13: a checkRateLimit call made when no record of the pair has its
\* windowStart within the last windowMs creates a record with requestCount = 1
\* and windowStart = now and returns allowed = true; so a pair is allowed
\* again once windowMs has elapsed since the start of each of its windows.
C13_FreshWindow ==
  [][\A p \in Procs, key \in RateKeys :
       CheckRateLimit(p, key[1], key[2]) =>
         LET config == ConfigOf(key[2])
             mine == { r \in rateLimits : r.identifier = key[1] /\ r.endpoint = key[2] }
         IN /\ InWindow(key[1], key[2], now) = {}
               <=> \A r \in mine : now >= r.windowStart + config.windowMs
            /\ (\A r \in mine : now >= r.windowStart + config.windowMs)
               => /\ loc'[p].allowed = TRUE
                  /\ \E n \in rateLimits' \ rateLimits :
                       /\ rateLimits' = rateLimits \cup {n}
                       /\ n.identifier = key[1] /\ n.endpoint = key[2]
                       /\ n.requestCount = 1
                       /\ n.windowStart = now]_vars

\* a pair whose window is used up has been allowed again in a new window
C13_Witness ==
  \E p \in Procs :
    /\ loc[p].pc = "done" /\ loc[p].op = "checkRateLimit" /\ loc[p].allowed
    /\ \E old \in rateLimits, n \in rateLimits :
         /\ old.identifier = n.identifier /\ old.endpoint = n.endpoint
         /\ old.requestCount = ConfigOf(old.endpoint).maxRequests
         /\ n.windowStart = now
         /\ n.windowStart >= old.windowStart + ConfigOf(old.endpoint).windowMs
         /\ n.requestCount = 1

\* C14: the requestCount of a rate-limit record is at most the maxRequests of
\* its operation in every state, and the write step of a checkRateLimit call
\* that returns allowed = false leaves every record as it was.
C14_CountWithinCeiling ==
  [][/\ \A r \in rateLimits' : r.requestCount <= ConfigOf(r.endpoint).maxRequests
     /\ \A p \in Procs :
          (RateWrite(p) /\ loc'[p].allowed = FALSE) => rateLimits' = rateLimits]_vars

\* a call has been denied, some time after the last allowed call, on a
\* record at its ceiling
C14_Witness ==
  \E p \in Procs :
    /\ loc[p].pc = "done" /\ loc[p].op = "checkRateLimit" /\ loc[p].allowed = FALSE
    /\ \E r \in rateLimits :
         /\ r.requestCount = ConfigOf(r.endpoint).maxRequests
         /\ r.lastRequest < now

\* C15: when a read or a write of the store fails inside checkRateLimit the
\* call returns a result with allowed = true: the failure does not reach the
\* caller, and no record is written.
C15_FailOpen ==
  [][\A p \in Procs :
       ( \/ \E key \in ConcRateKeys : CheckRateLimitThrows(p, key[1], key[2])
         \/ RateAbort(p) )
       => /\ loc'[p].pc = "done" /\ loc'[p].op = "checkRateLimit"
          /\ loc'[p].allowed = TRUE
          /\ rateLimits' = rateLimits]_vars

\* the store has failed for a pair that is at its ceiling, and the call has
\* returned allowed = true
C15_Witness ==
  \E p \in Procs :
    /\ loc[p].pc = "done" /\ loc[p].op = "checkRateLimit"
    /\ loc[p].allowed /\ loc[p].remainingRequests = NoCount
    /\ \E r \in rateLimits :
         /\ r.requestCount = ConfigOf(r.endpoint).maxRequests
         /\ r.windowStart > now - ConfigOf(r.endpoint).windowMs

----------------------------------------------------------------------------
(***************************************************************************)
(* Properties of the device limit and of revokeAllTokens                   *)
(***************************************************************************)
\* the row with the two flags of a revoked session
Evicted(s) == [s EXCEPT !.revoked = TRUE, !.isActive = FALSE]

\* C16: when enforceDeviceLimit runs for an account whose active sessions
\* number maxDevices or more, exactly one session is revoked and deactivated,
\* it is an active session of the account that no other precedes in
\* sessionStarted, every refresh-token record of its family is revoked, and
\* every other session and every record of another family stay as they were.
C16_EvictsOldestSession ==
  [][\A p \in Procs, acct \in Accounts, maxDevices \in MaxDevicesChoices :
       Cardinality(ActiveSessions(acct)) >= maxDevices
       => ( EnforceDeviceLimit(p, acct, maxDevices)
            => \E s \in ActiveSessions(acct) :
                 /\ \A o \in ActiveSessions(acct) : s.sessionStarted <= o.sessionStarted
                 /\ sessions' = (sessions \ {s}) \cup {Evicted(s)}
                 /\ \A r \in refreshTokens :
                      IF r.tokenFamily = s.tokenFamily
                        THEN \E n \in refreshTokens' : n.id = r.id /\ n.revoked
                        ELSE r \in refreshTokens'
                 /\ Cardinality(refreshTokens') = Cardinality(refreshTokens) )]_vars

\* of two active sessions of an account the older one has been evicted, and
\* a record of its family is revoked
C16_Witness ==
  \E acct \in Accounts :
    \E s \in sessions, o \in sessions :
      /\ OfAccount(s, acct) /\ OfAccount(o, acct)
      /\ s.sessionStarted < o.sessionStarted
      /\ s.revoked /\ ~s.isActive
      /\ o.isActive /\ ~o.revoked
      /\ \E r \in refreshTokens : r.tokenFamily = s.tokenFamily /\ r.revoked
      /\ \A r \in refreshTokens : r.tokenFamily = o.tokenFamily => ~r.revoked

\* C17: when enforceDeviceLimit runs for an account with fewer active
\* sessions than maxDevices it changes no session and no refresh-token
\* record, and a generateTokenPair with a new family leaves the account with
\* one more active session than before.
C17_NoEvictionBelowLimit ==
  [][\A p \in Procs, acct \in Accounts :
       /\ \A maxDevices \in MaxDevicesChoices :
            Cardinality(ActiveSessions(acct)) < maxDevices
            => ( EnforceDeviceLimit(p, acct, maxDevices)
                 => sessions' = sessions /\ refreshTokens' = refreshTokens )
       /\ \A fp \in Fingerprints :
            GenerateTokenPair(p, acct, fp, NoFamily)
            => Cardinality({ s \in sessions' : OfAccount(s, acct) /\ s.isActive })
                 = Cardinality(ActiveSessions(acct)) + 1]_vars

\* an account below the limit of two devices has logged in a second time
\* and has two active sessions
C17_Witness ==
  \E p \in Procs, acct \in Accounts :
    /\ loc[p].pc = "done" /\ loc[p].op = "generateTokenPair"
    /\ Cardinality(ActiveSessions(acct)) = 2
    /\ \E s \in ActiveSessions(acct) : s.tokenFamily = loc[p].family /\ s.createdAt = now

\* C18: after revokeAllTokens for an account every refresh-token record of
\* the account is revoked and every session of the account is revoked and
\* inactive, while the records and sessions of other accounts are unchanged;
\* and every later rotateRefreshToken with a secret issued to the account
\* before the call fails: a revoked record stays revoked until it is deleted,
\* the secret of a record is never issued again, and a rotation presenting a
\* secret whose record is revoked or gone returns an error and no pair.
C18_RevokeAllRevokesAccount ==
  [][/\ \A p \in Procs, acct \in Accounts :
          RevokeAllTokens(p, acct)
          => /\ \A r \in refreshTokens' : OfAccount(r, acct) => r.revoked
             /\ \A s \in sessions' : OfAccount(s, acct) => s.revoked /\ ~s.isActive
             /\ { r.id : r \in refreshTokens' } = { r.id : r \in refreshTokens }
             /\ { s.id : s \in sessions' } = { s.id : s \in sessions }
             /\ \A r \in refreshTokens : ~OfAccount(r, acct) => r \in refreshTokens'
             /\ \A s \in sessions : ~OfAccount(s, acct) => s \in sessions'
     /\ \A r \in refreshTokens :
          /\ r.id < nextId
          /\ r.revoked => \A n \in refreshTokens' : n.tokenHash = r.tokenHash => n.revoked
     /\ \A n \in refreshTokens' :
          \/ \E r \in refreshTokens : r.id = n.id /\ r.tokenHash = n.tokenHash
                                      /\ r.userId = n.userId /\ r.superuserId = n.superuserId
          \/ n.id = nextId /\ n.tokenHash = hashToken(nextId) /\ nextId' > nextId
     /\ \A p \in Procs, secret \in Secrets, fp \in Fingerprints :
          (\A r \in FindByHash(secret) : r.revoked)
          => ( RotateRefreshToken(p, secret, fp)
               => /\ loc'[p].error # NoError
                  /\ loc'[p].access = NoAccess
                  /\ \A n \in refreshTokens' : \E r \in refreshTokens : r.id = n.id )]_vars

\* after revokeAllTokens for one account a secret of that account has been
\* presented and refused, and a record and a session of the other account
\* are still in force
C18_Witness ==
  \E p \in Procs, acct \in Accounts, other \in Accounts :
    /\ other # acct
    /\ loc[p].pc = "done" /\ loc[p].op = "rotateRefreshToken"
    /\ loc[p].error = "Token has been revoked"
    /\ \E r \in refreshTokens : OfAccount(r, acct)
    /\ \A r \in refreshTokens : OfAccount(r, acct) => r.revoked
    /\ \E s \in sessions : OfAccount(s, acct)
    /\ \A s \in sessions : OfAccount(s, acct) => s.revoked /\ ~s.isActive
    /\ \E r \in refreshTokens : OfAccount(r, other) /\ ~r.revoked
    /\ \E s \in sessions : OfAccount(s, other) /\ s.isActive /\ ~s.revoked

----------------------------------------------------------------------------
(***************************************************************************)
(* Properties of the successor links and of the sessions                   *)
(***************************************************************************)
\* record b is reached from record a of rows by following newTokenId at
\* least once and at most n times
RECURSIVE Follows(_, _, _, _)
Follows(rows, a, b, n) ==
  /\ n > 0
  /\ a.newTokenId # NoId
  /\ \E m \in rows :
       /\ m.id = a.newTokenId
       /\ (m.id = b.id \/ Follows(rows, m, b, n - 1))

\* C19: the successor links of a family form a non-branching, acyclic forward
\* chain: the newTokenId of a record, once set, never changes (so no record
\* is rotated into two different successors), and following newTokenId from
\* a record never returns to it.
C19_SuccessorChain ==
  [][/\ \A r \in refreshTokens :
          r.newTokenId # NoId
          => \A n \in refreshTokens' : n.id = r.id => n.newTokenId = r.newTokenId
     /\ \A n \in refreshTokens' :
          ~Follows(refreshTokens', n, n, Cardinality(refreshTokens'))]_vars

Returns(p, op) == loc[p].pc # "done" /\ loc'[p].pc = "done" /\ loc'[p].op = op

\* C21: for every session row, across every step, refreshCount never
\* decreases and sessionStarted keeps its value; generateTokenPair on a
\* family that has a session changes only the lastActivity of that session,
\* and a rotation that issues a successor increases the refreshCount of the
\* family's session by exactly 1 and changes no other refreshCount.
C21_SessionCounters ==
  [][/\ \A s \in sessions, n \in sessions' :
          n.id = s.id => /\ n.refreshCount >= s.refreshCount
                         /\ n.sessionStarted = s.sessionStarted
     /\ \A p \in Procs :
          /\ ( /\ Returns(p, "generateTokenPair")
               /\ \E s \in sessions : s.tokenFamily = loc'[p].family )
             => /\ { s.id : s \in sessions' } = { s.id : s \in sessions }
                /\ \A s \in sessions :
                     IF s.tokenFamily = loc'[p].family
                       THEN \E n \in sessions' : n = [s EXCEPT !.lastActivity = n.lastActivity]
                       ELSE s \in sessions'
          /\ ( /\ Returns(p, "rotateRefreshToken")
               /\ loc'[p].error = NoError
               /\ \E n \in refreshTokens' :
                    n.tokenHash = hashToken(loc'[p].refreshToken) /\ n \notin refreshTokens )
             => \E n \in refreshTokens' \ refreshTokens :
                  \A s \in sessions : \E t \in sessions' :
                    /\ t.id = s.id
                    /\ t.refreshCount = IF s.tokenFamily = n.tokenFamily
                                          THEN s.refreshCount + 1 ELSE s.refreshCount]_vars

\* a session has been through a rotation that issued a successor
C21_Witness ==
  \E s \in sessions :
    /\ s.refreshCount = 1
    /\ s.lastActivity > s.sessionStarted
    /\ \E r \in FamilyOf(s.tokenFamily) : r.rotatedAt = s.lastActivity

\* C22: a call of rotateRefreshToken always ends with a result, never an
\* exception: a handler inside the transaction leaves it only to hold either
\* an error or a pair.  When a statement of the callback throws, the result is
\* the error of the catch and the refresh tokens and the sessions are as they
\* were before the call wrote anything.
RotateFailed == "An error occurred during token rotation"

C22_FailureLeavesNothing ==
  [][\A p \in Procs :
       /\ ( loc[p].pc = "rotate_tx" /\ loc'[p] # loc[p] )
            => /\ loc'[p].pc = "done"
               /\ loc'[p].op = "rotateRefreshToken"
               /\ (loc'[p].error = NoError) # (loc'[p].refreshToken = NoId)
       /\ ( Returns(p, "rotateRefreshToken") /\ loc'[p].error = RotateFailed )
            => refreshTokens' = refreshTokens /\ sessions' = sessions]_vars

\* a rotation that would have issued a successor failed: the record it
\* presented is still the family's unrotated one
C22_Witness ==
  \E p \in Procs :
    /\ Rotated(p)
    /\ loc[p].error = RotateFailed
    /\ \E r \in refreshTokens, s \in sessions :
         /\ IsActive(r)
         /\ s.tokenFamily = r.tokenFamily
         /\ now - s.lastActivity >= MIN_REFRESH_INTERVAL
         /\ s.refreshCount = 0

\* C23: once blacklistToken has stored the jti of an access token, a request
\* to POST /api/companies that presents the token before its expiry is
\* answered 401.
C23_BlacklistedRejected ==
  \A p \in Procs :
    ( /\ loc[p].pc = "done"
      /\ loc[p].op = "POST /api/companies"
      /\ loc[p].token # NoToken
      /\ isTokenBlacklisted(loc[p].token.jti)
      /\ now < loc[p].token.exp )
    => loc[p].status = 401

\* C24: whatever sendOTP calls have run, one after the other or side by
\* side, a phone never has two unused OTP records created less than
\* OTP_COOLDOWN apart.
C24_CooldownBetweenRecords ==
  \A a \in otps, b \in otps :
    ( /\ a.id # b.id
      /\ a.phoneNumber = b.phoneNumber
      /\ ~a.used /\ ~b.used
      /\ a.createdAt <= b.createdAt )
    => b.createdAt - a.createdAt >= OTP_COOLDOWN

\* the sessions of the account whose last activity is more than the
\* retention ago
Orphaned(acct) ==
  { s \in sessions :
      SameAccount(s, acct) /\ now - s.lastActivity > ORPHAN_RETENTION_DAYS * DAY }

\* C25: a step that removes a session row is a cleanupOrphanedSessions for
\* one account: it removes exactly the sessions of that account whose
\* lastActivity is more than 7 days old, revoked or not, and it leaves every
\* other session, every refresh-token record and the blacklist as they were.
C25_OrphanCleanupFrame ==
  [][(\E s \in sessions : \A n \in sessions' : n.id # s.id)
       => /\ \E acct \in Accounts : sessions' = sessions \ Orphaned(acct)
          /\ refreshTokens' = refreshTokens
          /\ tokenBlacklist' = tokenBlacklist]_vars

\* a session was removed, the records of its family are still there, and
\* another session was kept
C25_Witness ==
  /\ \E r \in refreshTokens :
       /\ r.expiresAt - REFRESH_TOKEN_EXPIRY_DAYS * DAY < now - ORPHAN_RETENTION_DAYS * DAY
       /\ \A s \in sessions : s.tokenFamily # r.tokenFamily
  /\ sessions # {}

\* the rows of a table that the step removes
Removed(rows, rowsAfter) == { r \in rows : \A n \in rowsAfter : n.id # r.id }

\* C26: every row a step removes from refresh_tokens, token_blacklist or otps
\* has its expiresAt before now, and every row removed from rate_limits has
\* its windowStart more than a day before now.  A step that removes a
\* refresh-token record is the sweep of the expired tokens: it changes no
\* other record, no session and returns nothing.  After a step that removes
\* rows from a table, no row of the table is left for a second run to remove.
C26_SweepsRemoveOnlyExpired ==
  [][/\ \A r \in Removed(refreshTokens, refreshTokens') : r.expiresAt < now
     /\ \A b \in Removed(tokenBlacklist, tokenBlacklist') : b.expiresAt < now
     /\ \A o \in Removed(otps, otps') : o.expiresAt < now
     /\ \A l \in Removed(rateLimits, rateLimits') : l.windowStart < now - DAY
     /\ Removed(refreshTokens, refreshTokens') # {}
          => /\ refreshTokens' = refreshTokens \ Removed(refreshTokens, refreshTokens')
             /\ sessions' = sessions
             /\ loc' = loc
             /\ \A r \in refreshTokens' : ~(r.expiresAt < now')
             /\ \A b \in tokenBlacklist' : ~(b.expiresAt < now')
     /\ Removed(tokenBlacklist, tokenBlacklist') # {}
          => \A b \in tokenBlacklist' : ~(b.expiresAt < now')
     /\ Removed(otps, otps') # {}
          => \A o \in otps' : ~(o.expiresAt < now')
     /\ Removed(rateLimits, rateLimits') # {}
          => \A l \in rateLimits' : ~(l.windowStart < now' - DAY)]_vars

\* a stored OTP record has been swept while a row that is still valid,
\* expiring or starting its window at this very moment, has been kept
C26_Witness ==
  /\ \E id \in DOMAIN otpLog.verified : \A o \in otps : o.id # id
  /\ \/ \E r \in refreshTokens : r.expiresAt = now
     \/ \E b \in tokenBlacklist : b.expiresAt >= now
     \/ \E l \in rateLimits : l.windowStart = now - DAY

\* C27 as claimed: verifyAccessToken returns the claims exactly when the
\* token is signed with JWT_SECRET and the time is at most CLOCK_SKEW_SECONDS
\* past its exp, and null otherwise.
C27_AtMostSkewPastExpiry ==
  \A p \in Procs :
    ( loc[p].pc = "done" /\ loc[p].op = "verifyAccessToken" )
    => IF /\ loc[p].token.key = JWT_SECRET
          /\ now <= loc[p].token.exp + CLOCK_SKEW_SECONDS
         THEN loc[p].decoded = Claims(loc[p].token)
         ELSE loc[p].decoded = Null

\* C27: a call of verifyAccessToken changes no table; it returns the claims
\* exactly when the token is signed with JWT_SECRET and the time is less than
\* CLOCK_SKEW_SECONDS past its exp; for any other token it returns null: it
\* does not throw.
C27_VerifyWithinSkew ==
  [][\A p \in Procs :
       Returns(p, "verifyAccessToken")
       => /\ refreshTokens' = refreshTokens /\ sessions' = sessions
          /\ tokenBlacklist' = tokenBlacklist
          /\ otps' = otps /\ rateLimits' = rateLimits
          /\ IF /\ loc'[p].token.key = JWT_SECRET
                /\ now < loc'[p].token.exp + CLOCK_SKEW_SECONDS
               THEN loc'[p].decoded = Claims(loc'[p].token)
               ELSE loc'[p].decoded = Null]_vars

\* a token past its exp, within the tolerance, has been verified
C27_Witness ==
  \E p \in Procs :
    /\ loc[p].pc = "done" /\ loc[p].op = "verifyAccessToken"
    /\ now > loc[p].token.exp
    /\ loc[p].decoded = Claims(loc[p].token)

\* the errors of a rotation that is refused without a sign of theft
NonTheftErrors ==
  { "Invalid refresh token", "Refresh token expired. Please login again.",
    "Session not found", "Token refreshed too frequently",
    "Session expired. Please login again.", "Session requires re-authentication" }

\* the session of the family of r passes the checks up to the one named
SessionOf(r) == { s \in sessions : s.tokenFamily = r.tokenFamily }
IntervalPassed(r) ==
  \A s \in SessionOf(r) : now - s.lastActivity >= MIN_REFRESH_INTERVAL
AgePassed(r) ==
  \A s \in SessionOf(r) : now - s.sessionStarted <= REFRESH_TOKEN_EXPIRY_DAYS * DAY
CountPassed(r) ==
  \A s \in SessionOf(r) : s.refreshCount <= MAX_REFRESH_COUNT

\* C28: a rotation that ends in a non-theft error leaves every refresh-token
\* record and every session as it was.  Each outcome is that of the first
\* check that fails, in the order lookup, revoked, expired, grace, session,
\* interval, age, count, fingerprint; so a record that is revoked and expired
\* gives the revoked error and its family is revoked.
C28_RejectionOrder ==
  [][\A p \in Procs, secret \in WornSecrets, fp \in Fingerprints :
       RotateStep(p, secret, fp)
       => LET e == loc'[p].error
              found == FindByHash(secret)
          IN /\ e \in NonTheftErrors
                  => refreshTokens' = refreshTokens /\ sessions' = sessions
             /\ (e = "Invalid refresh token") <=> (found = {})
             /\ \A r \in found :
                  /\ (e = "Token has been revoked") <=> r.revoked
                  /\ r.revoked
                       => /\ \A x \in SameFamily(refreshTokens', r) : x.revoked
                          /\ \A x \in SameFamily(sessions', r) : x.revoked
                  /\ (e = "Refresh token expired. Please login again.")
                       <=> (~r.revoked /\ now > r.expiresAt)
                  /\ Presentable(r) =>
                       /\ (e = NoError /\ loc'[p].refreshToken = secret) <=> InGrace(r)
                       /\ (e = "Session not found") <=> (~InGrace(r) /\ SessionOf(r) = {})
                       /\ (~InGrace(r) /\ SessionOf(r) # {}) =>
                            /\ (e = "Token refreshed too frequently") <=> ~IntervalPassed(r)
                            /\ (e = "Session expired. Please login again.")
                                 <=> (IntervalPassed(r) /\ ~AgePassed(r))
                            /\ (e = "Session requires re-authentication")
                                 <=> (IntervalPassed(r) /\ AgePassed(r) /\ ~CountPassed(r))
                            /\ (e = "Device fingerprint mismatch")
                                 <=> ( /\ IntervalPassed(r) /\ AgePassed(r) /\ CountPassed(r)
                                       /\ r.deviceFingerprint # fp )]_vars

\* a rotation has been refused for the count of the session: the record it
\* presented is still the active one of the family
C28_Witness ==
  \E p \in Procs :
    /\ Rotated(p)
    /\ loc[p].error = "Session requires re-authentication"
    /\ \E s \in sessions :
         /\ s.refreshCount = MAX_REFRESH_COUNT + 1
         /\ Cardinality(ActiveOf(s.tokenFamily)) = 1

\* C30: a rotation that presents a record whose session is older than
\* REFRESH_TOKEN_EXPIRY_DAYS since sessionStarted, or has a refreshCount above
\* MAX_REFRESH_COUNT, creates no refresh-token record and returns no new
\* secret; when the checks before these two pass, its error is the
\* session-expired one for the age and else the re-authentication one.
C30_NoSuccessorPastLimits ==
  [][\A p \in Procs, secret \in WornSecrets, fp \in Fingerprints :
       RotateStep(p, secret, fp)
       => \A r \in FindByHash(secret) :
            (~AgePassed(r) \/ ~CountPassed(r))
            => /\ { n.id : n \in refreshTokens' } = { n.id : n \in refreshTokens }
               /\ loc'[p].refreshToken \in {NoId, secret}
               /\ (Presentable(r) /\ ~InGrace(r) /\ IntervalPassed(r))
                    => loc'[p].error =
                         IF ~AgePassed(r) THEN "Session expired. Please login again."
                                          ELSE "Session requires re-authentication"]_vars

\* a rotation has been refused for the age of the session although the
\* family's active record is not expired
C30_Witness ==
  \E p \in Procs :
    /\ Rotated(p)
    /\ loc[p].error = "Session expired. Please login again."
    /\ \E s \in sessions :
         /\ now - s.sessionStarted > REFRESH_TOKEN_EXPIRY_DAYS * DAY
         /\ \E r \in ActiveOf(s.tokenFamily) : now <= r.expiresAt

\* when the record was issued: it expires REFRESH_TOKEN_EXPIRY_DAYS later
IssuedAt(r) == r.expiresAt - REFRESH_TOKEN_EXPIRY_DAYS * DAY

\* the records of the generateTokenPair calls that have not returned yet
InFlight == { loc[q].sessionId : q \in { h \in Procs : loc[h].pc = "gen_session" } }

\* C29: a rotation that creates a successor commits at least
\* MIN_REFRESH_INTERVAL after every earlier issuance of a record of the
\* family, by a rotation or by a generateTokenPair call that has returned.
C29_IntervalBetweenIssuances ==
  [][\A p \in Procs :
       ( Returns(p, "rotateRefreshToken") /\ loc'[p].error = NoError )
       => \A n \in refreshTokens' :
            (\A x \in refreshTokens : x.id # n.id)
            => \A x \in SameFamily(refreshTokens, n) :
                 x.id \notin InFlight => now - IssuedAt(x) >= MIN_REFRESH_INTERVAL]_vars

\* the records of the pair whose window is open at this moment
OpenWindows(identifier, endpoint) ==
  { r \in rateLimits : /\ r.identifier = identifier
                       /\ r.endpoint = endpoint
                       /\ now - r.windowStart < ConfigOf(endpoint).windowMs }

\* C31: in every reachable state a pair (identifier, endpoint) has at most
\* one rate-limit record whose windowStart lies within the last windowMs.
C31_OneRecordPerWindow ==
  \A key \in RateKeys : Cardinality(OpenWindows(key[1], key[2])) <= 1

\* the calls that returned allowed = true on a record (those whose store
\* operations succeeded) are at most the maxRequests of its operation
AllowedAtMostCeiling ==
  \A r \in rateLimits : rateLog[r.id] <= ConfigOf(r.endpoint).maxRequests

\* C32: with no store failure at most maxRequests calls of one pair return
\* allowed = true within one window, and each of them has its own increment:
\* the allowed calls of a record are as many as its requestCount.
C32_AllowedWithinCeiling ==
  /\ AllowedAtMostCeiling
  /\ \A r \in rateLimits : rateLog[r.id] = r.requestCount

----------------------------------------------------------------------------
(***************************************************************************)
(* Properties of verifyOTP                                                 *)
(***************************************************************************)
\* the unused records of a phone
UnusedOTPs(phone) == { r \in otps : r.phoneNumber = phone /\ ~r.used }

\* C33: every verifyOTP call that returns a failure (no matching unused
\* record, expired, too many attempts) increments attemptCount of each unused
\* OTP record of the phone by one.
C33_FailureCountsAttempt ==
  [][\A p \in Procs, input \in PhoneInputs, otp \in Codes, fp \in Fingerprints :
       ( /\ VerifyOTP(p, input, otp, fp)
         /\ ~loc'[p].success )
       => \A r \in UnusedOTPs(normalizePhoneNumber(input, CountryCode)) :
            [r EXCEPT !.attemptCount = @ + 1] \in otps']_vars

\* what the records say about their use
UseOf(records) ==
  { [id |-> r.id, used |-> r.used, usedAt |-> r.usedAt,
     usedByFingerprint |-> r.usedByFingerprint] : r \in records }

\* C34: a verifyOTP call that does not return success marks no record used
\* (whether it returns a failure or its transaction throws); a call with the
\* code of records that are all past their expiresAt returns the expired
\* failure and the records stay unused; a call that returns success sets
\* used, usedAt and usedByFingerprint on exactly one record, an unused one
\* with the phone and the code of the call, and changes nothing else.
C34_OnlySuccessMarksUsed ==
  [][/\ \A p \in Procs, input \in VerifyInputs, otp \in Codes, fp \in Fingerprints :
          LET phone == normalizePhoneNumber(input, CountryCode)
              matching == MatchingOTPs(phone, hashOTP(otp))
          IN VerifyOTP(p, input, otp, fp) =>
               /\ ~loc'[p].success => UseOf(otps') = UseOf(otps)
               /\ (matching # {} /\ \A r \in matching : now > r.expiresAt)
                    => /\ loc'[p].message = "OTP has expired. Please request a new one."
                       /\ otps' = otps
               /\ loc'[p].success
                    => \E r \in matching :
                         otps' = (otps \ {r}) \cup
                                   { [r EXCEPT !.used = TRUE, !.usedAt = now,
                                               !.usedByFingerprint = fp] }
     /\ \A p \in Procs, input \in VerifyInputs, updated \in BOOLEAN :
          VerifyOTPThrows(p, input, updated) => UseOf(otps') = UseOf(otps)]_vars

\* a call has returned the expired failure for a record that is still unused,
\* after another record of the phone was verified
C34_Witness ==
  \E p \in Procs :
    /\ loc[p].pc = "done"
    /\ loc[p].op = "verifyOTP"
    /\ loc[p].message = "OTP has expired. Please request a new one."
    /\ \E a \in otps, b \in otps :
         /\ ~a.used
         /\ now > a.expiresAt
         /\ b.phoneNumber = a.phoneNumber
         /\ b.used
         /\ b.usedByFingerprint = "fpB"

----------------------------------------------------------------------------
(***************************************************************************)
(* Logins: enforceDeviceLimit(maxDevices), then generateTokenPair with a   *)
(* new family, statement by statement                                      *)
(***************************************************************************)
\* the maxDevices every login passes
LoginMaxDevices == 1

\* enforceDeviceLimit lines 435-452: read the active sessions; pick the
\* oldest when at the limit
LoginEnforceRead(p, acct) ==
  /\ loc[p] = Idle
  /\ NoneDone
  /\ IF Cardinality(ActiveSessions(acct)) >= LoginMaxDevices
       THEN \E oldest \in Oldest(ActiveSessions(acct)) :
              loc' = [loc EXCEPT ![p] =
                [pc |-> "login_session", acct |-> acct, oldestId |-> oldest.id,
                 oldestFamily |-> oldest.tokenFamily]]
       ELSE loc' = [loc EXCEPT ![p] = [pc |-> "login_insert", acct |-> acct]]
  /\ UNCHANGED <<now, ticksLeft, nextId, idsLeft, refreshTokens, sessions, tokenBlacklist>>
  /\ UNCHANGED otpTables
  /\ UNCHANGED rateTables
  /\ UNCHANGED auditTables

\* enforceDeviceLimit lines 453-455: revoke the oldest session
LoginRevokeSession(p) ==
  /\ loc[p].pc = "login_session"
  /\ NoneDone
  /\ CanWrite(p)
  /\ sessions' = RevokeSession(sessions, loc[p].oldestId)
  /\ loc' = [loc EXCEPT ![p].pc = "login_tokens"]
  /\ UNCHANGED <<now, ticksLeft, nextId, idsLeft, refreshTokens, tokenBlacklist>>
  /\ UNCHANGED otpTables
  /\ UNCHANGED rateTables
  /\ UNCHANGED auditTables

\* enforceDeviceLimit lines 457-460: revoke the records of its family
LoginRevokeTokens(p) ==
  /\ loc[p].pc = "login_tokens"
  /\ NoneDone
  /\ CanWrite(p)
  /\ refreshTokens' = RevokeFamilyTokens(refreshTokens, loc[p].oldestFamily)
  /\ loc' = [loc EXCEPT ![p] = [pc |-> "login_insert", acct |-> loc[p].acct]]
  /\ UNCHANGED <<now, ticksLeft, nextId, idsLeft, sessions, tokenBlacklist>>
  /\ UNCHANGED otpTables
  /\ UNCHANGED rateTables
  /\ UNCHANGED auditTables

\* generateTokenPair lines 49-87, without an existing family: draw the ids,
\* the secret and the family, insert the refresh token
LoginInsertToken(p, fingerprint) ==
  /\ loc[p].pc = "login_insert"
  /\ NoneDone
  /\ CanWrite(p)
  /\ idsLeft > 0
  /\ refreshTokens' = refreshTokens \cup
       { NewRefreshToken(nextId, nextId, loc[p].acct.userId, loc[p].acct.superuserId,
                         nextId, fingerprint, now) }
  /\ loc' = [loc EXCEPT ![p] =
       [ pc |-> "gen_session", userId |-> loc[p].acct.userId,
         superuserId |-> loc[p].acct.superuserId, family |-> nextId,
         fingerprint |-> fingerprint, now |-> now,
         sessionId |-> nextId, refreshToken |-> nextId ]]
  /\ nextId' = nextId + 1
  /\ idsLeft' = idsLeft - 1
  /\ UNCHANGED <<now, ticksLeft, sessions, tokenBlacklist>>
  /\ UNCHANGED otpTables
  /\ UNCHANGED rateTables
  /\ UNCHANGED auditTables

\* the logins of one account on two handlers, and the rotations of the
\* secrets they hand out
NextLogin ==
  \/ \E d \in ConcJumps : Tick(d)
  \/ \E p \in Procs : Return(p)
  \/ \E p \in Procs : LoginEnforceRead(p, User)
  \/ \E p \in Procs : LoginRevokeSession(p)
  \/ \E p \in Procs : LoginRevokeTokens(p)
  \/ \E p \in Procs, fp \in Fingerprints : LoginInsertToken(p, fp)
  \/ \E p \in Procs : GenUpsertSession(p)
  \/ \E p \in Procs, secret \in Secrets, fp \in ConcFingerprints : RotateBegin(p, secret, fp)
  \/ \E p \in Procs : RotateCommit(p)

SpecLogin == InitDeep /\ [][NextLogin]_vars

\* C35: when every login runs enforceDeviceLimit(maxDevices) and then
\* generateTokenPair with a new family, the account has at most maxDevices
\* active sessions whenever a login has completed, also when logins interleave.
C35_AtMostMaxDevices ==
  \A p \in Procs :
    (loc[p].pc = "done" /\ loc[p].op = "generateTokenPair")
      => Cardinality(ActiveSessions(User)) <= LoginMaxDevices

----------------------------------------------------------------------------
(***************************************************************************)
(* Evictions: enforceDeviceLimit and rotateRefreshToken side by side       *)
(***************************************************************************)
\* two handlers issuing new families, evicting and rotating, statement by
\* statement.  The sessions these calls revoke are the evicted ones: a record
\* is revoked here by an eviction only, so the revoked-record branch of the
\* rotation revokes the session of an evicted family
NextEvict ==
  \/ \E d \in ConcJumps : Tick(d)
  \/ \E p \in Procs : Return(p)
  \/ \E p \in Procs : GenInsertToken(p, User, "fpA", NoFamily)
  \/ \E p \in Procs : GenUpsertSession(p)
  \/ \E p \in Procs, m \in MaxDevicesChoices : EnforceRead(p, User, m)
  \/ \E p \in Procs : EnforceRevokeSession(p)
  \/ \E p \in Procs : EnforceRevokeTokens(p)
  \/ \E p \in Procs, secret \in Secrets : RotateBegin(p, secret, "fpA")
  \/ \E p \in Procs : RotateCommit(p)

SpecEvict == InitDeep /\ [][NextEvict]_vars

\* the families whose session an eviction has revoked
EvictedFamilies == { s.tokenFamily : s \in { e \in sessions : e.revoked } }

\* the evictions that have written the session and not yet the records
HalfEvicted ==
  { loc[p].oldestFamily : p \in { q \in Procs : loc[q].pc = "enforce_tokens" } }

\* a rotation commits on a record of an evicted family
RotatesEvicted(q) ==
  /\ RotateCommit(q)
  /\ \E r \in loc[q].tokenRecord : r.tokenFamily \in EvictedFamilies

\* C36: once enforceDeviceLimit has evicted a session, the family of that
\* session holds no active (unrevoked) refresh-token record when the eviction
\* has returned, and no rotateRefreshToken with a secret of that family
\* returns a token pair, also when the rotation runs between the session
\* update and the record update of the eviction.
C36_EvictedFamilyInert ==
  /\ [](\A r \in refreshTokens :
          r.tokenFamily \in EvictedFamilies \ HalfEvicted => r.revoked)
  /\ [][\A q \in Procs : RotatesEvicted(q) => loc'[q].error # NoError]_vars

\* the same of the evictions that have returned only
ReturnedEvictionInert ==
  /\ [](\A r \in refreshTokens :
          r.tokenFamily \in EvictedFamilies \ HalfEvicted => r.revoked)
  /\ [][\A q \in Procs :
          ( /\ RotatesEvicted(q)
            /\ \A r \in loc[q].tokenRecord : r.tokenFamily \notin HalfEvicted )
          => loc'[q].error # NoError]_vars

----------------------------------------------------------------------------
(***************************************************************************)
(* The sweeps batch by batch, on tables with more rows than one batch      *)
(***************************************************************************)
AUDIT_BATCH_SIZE == 1000
AUDIT_RETENTION_DAYS == 90

\* values(...) of the insert into audit_logs; the sweep reads created_at only
NewAuditLog(id, t) == [id |-> id, createdAt |-> t]

\* part_002 createAuditLog, lines 139-160: one insert
CreateAuditLog(p) ==
  /\ loc[p] = Idle
  /\ NoneDone
  /\ CanWrite(p)
  /\ idsLeft > 0
  /\ auditLogs' = auditLogs \cup {NewAuditLog(nextId, now)}
  /\ nextId' = nextId + 1
  /\ idsLeft' = idsLeft - 1
  /\ UNCHANGED <<now, ticksLeft, loc>>
  /\ UNCHANGED tokenTables
  /\ UNCHANGED otpTables
  /\ UNCHANGED rateTables

\* part_002 line 195: ninetyDaysAgo is taken once, before the first batch
NinetyDaysAgo(p) ==
  IF loc[p] = Idle THEN now - AUDIT_RETENTION_DAYS * DAY ELSE loc[p].ninetyDaysAgo

\* part_002 lines 202-204: the rows with created_at < ninetyDaysAgo
OldAuditLogs(p) == { r \in auditLogs : r.createdAt < NinetyDaysAgo(p) }

\* part_002 cleanupAuditLogs, lines 193-215: one batch of audit_logs; the
\* loop goes on while a batch has deleted BATCH_SIZE rows
SweepAudit(p) ==
  /\ loc[p] = Idle \/ loc[p].pc = "sweep_audit"
  /\ NoneDone
  /\ CanWrite(p)
  /\ \E d \in Limit(OldAuditLogs(p), AUDIT_BATCH_SIZE) :
       /\ auditLogs' = auditLogs \ d
       /\ loc' = [loc EXCEPT ![p] =
            [pc |-> IF Cardinality(d) = AUDIT_BATCH_SIZE THEN "sweep_audit"
                    ELSE "swept_audit", ninetyDaysAgo |-> NinetyDaysAgo(p)]]
  /\ UNCHANGED <<now, ticksLeft, nextId, idsLeft>>
  /\ UNCHANGED tokenTables
  /\ UNCHANGED otpTables
  /\ UNCHANGED rateTables

\* part_003 cleanupExpiredOTPs, lines 675-698: one batch of otps, with the
\* time of the batch; the loop goes on while a batch has deleted BATCH_SIZE rows
SweepOtps(p) ==
  /\ loc[p] = Idle \/ loc[p].pc = "sweep_otps"
  /\ NoneDone
  /\ CanWrite(p)
  /\ \E d \in Batches(otps, now) :
       /\ otps' = otps \ d
       /\ loc' = [loc EXCEPT ![p] =
            [pc |-> IF Cardinality(d) = BATCH_SIZE THEN "sweep_otps" ELSE "swept_otps",
             now |-> now]]
  /\ UNCHANGED <<now, ticksLeft, nextId, idsLeft, otpLog>>
  /\ UNCHANGED tokenTables
  /\ UNCHANGED rateTables
  /\ UNCHANGED auditTables

\* cleanupExpiredOTPs and cleanupAuditLogs return
SweepReturn(p) ==
  /\ loc[p].pc \in {"swept_otps", "swept_audit"}
  /\ loc' = [loc EXCEPT ![p] = Idle]
  /\ UNCHANGED <<now, ticksLeft, nextId, idsLeft>>
  /\ UNCHANGED tokenTables
  /\ UNCHANGED otpTables
  /\ UNCHANGED rateTables
  /\ UNCHANGED auditTables

\* the rows a burst of traffic has left: one more than a batch of refresh
\* tokens and of OTPs, just one batch of blacklist rows and of audit rows
BurstTokens ==
  { NewRefreshToken(i, i, User.userId, User.superuserId, i, "fpA", 0)
    : i \in 1..(BATCH_SIZE + 1) }
BurstBlacklist ==
  { [id |-> i, tokenJti |-> i, expiresAt |-> ACCESS_TOKEN_EXPIRY, createdAt |-> 0]
    : i \in 1..BATCH_SIZE }
BurstOtps ==
  { NewOtp(i, <<i>>, hashOTP("123456"), OTP_COOLDOWN * (i - 1)) : i \in 1..(BATCH_SIZE + 1) }
BurstAuditLogs == { NewAuditLog(i, 0) : i \in 1..AUDIT_BATCH_SIZE }

\* the clock when the sweeps are first run: the rows of the burst are old
BurstEnd == OTP_COOLDOWN * BATCH_SIZE + (AUDIT_RETENTION_DAYS + 1) * DAY

\* one of the tables holds the rows of a burst
InitBatches ==
  /\ now = BurstEnd
  /\ ticksLeft = MaxTicks
  /\ nextId = AUDIT_BATCH_SIZE + 1
  /\ idsLeft = 1
  /\ sessions = {}
  /\ loc = [p \in Procs |-> Idle]
  /\ otpLog = [wrongCodes |-> 0, verified |-> <<>>, undelivered |-> {}]
  /\ rateLimits = {}
  /\ rateLog = <<>>
  /\ \E burst \in {"tokens", "otps", "audit"} :
       /\ refreshTokens = IF burst = "tokens" THEN BurstTokens ELSE {}
       /\ tokenBlacklist = IF burst = "tokens" THEN BurstBlacklist ELSE {}
       /\ otps = IF burst = "otps" THEN BurstOtps ELSE {}
       /\ auditLogs = IF burst = "audit" THEN BurstAuditLogs ELSE {}

\* what the clock is seen to advance by between two batches
BatchJumps == {OTP_EXPIRY}

\* handler h1 runs the sweeps, handler h2 serves the traffic that adds rows
SweepStep ==
  \/ SweepTokens("h1")
  \/ SweepBlacklist("h1")
  \/ SweepOtps("h1")
  \/ SweepAudit("h1")
  \/ SweepReturn("h1")

NextBatches ==
  \/ \E d \in BatchJumps : Tick(d)
  \/ Return("h2")
  \/ GenerateTokenPair("h2", User, "fpA", NoFamily)
  \/ CreateAuditLog("h2")
  \/ SweepStep

SpecBatches == InitBatches /\ [][NextBatches]_vars

\* the sweeps are scheduled, and a caller takes its result
SpecBatchesFair ==
  SpecBatches /\ WF_vars(SweepStep) /\ WF_vars(Return("h2"))

\* a sweep is between two of its batches
Sweeping(p) == loc[p].pc \in {"sweep_tokens", "sweep_blacklist", "sweep_otps", "sweep_audit"}

\* C37: each batched sweep (cleanupExpiredTokens, cleanupExpiredOTPs,
\* cleanupAuditLogs) terminates while the traffic adds no expired rows; when
\* its loop over a table ends no row of the table has its expiry before the
\* reference time of the sweep; and it runs another batch only after a batch
\* that deleted exactly BATCH_SIZE rows.
C37_SweepsTerminateClean ==
  /\ \A p \in Procs : Sweeping(p) ~> (loc[p] = Idle)
  /\ [][\A p \in Procs :
          /\ (loc[p].pc \in {"idle", "sweep_tokens"} /\ loc'[p].pc = "sweep_blacklist")
               => \A r \in refreshTokens' : ~(r.expiresAt < loc'[p].now)
          /\ (loc[p].pc = "sweep_blacklist" /\ loc'[p] = Idle)
               => \A b \in tokenBlacklist' : ~(b.expiresAt < loc[p].now)
          /\ (loc[p].pc \in {"idle", "sweep_otps"} /\ loc'[p].pc = "swept_otps")
               => \A r \in otps' : ~(r.expiresAt < loc'[p].now)
          /\ (loc[p].pc \in {"idle", "sweep_audit"} /\ loc'[p].pc = "swept_audit")
               => \A r \in auditLogs' : ~(r.createdAt < loc'[p].ninetyDaysAgo)
          /\ (loc'[p].pc = "sweep_tokens" /\ refreshTokens' \ refreshTokens = {})
               => Cardinality(refreshTokens \ refreshTokens') \in {0, BATCH_SIZE}
          /\ (loc'[p].pc = "sweep_blacklist" /\ tokenBlacklist' \ tokenBlacklist = {})
               => Cardinality(tokenBlacklist \ tokenBlacklist') \in {0, BATCH_SIZE}
          /\ (loc'[p].pc = "sweep_otps" /\ otps' \ otps = {})
               => Cardinality(otps \ otps') \in {0, BATCH_SIZE}
          /\ (loc'[p].pc = "sweep_audit" /\ auditLogs' \ auditLogs = {})
               => Cardinality(auditLogs \ auditLogs') \in {0, AUDIT_BATCH_SIZE}]_vars

\* a sweep of refresh_tokens has deleted a full batch, has one expired row
\* left for its next batch, and the traffic has added a row meanwhile
C37_Witness ==
  /\ loc["h1"].pc = "sweep_tokens"
  /\ Cardinality({ r \in refreshTokens : r.expiresAt < loc["h1"].now }) = 1
  /\ \E r \in refreshTokens : r.expiresAt >= loc["h1"].now

----------------------------------------------------------------------------
(***************************************************************************)
(* Properties of the revocation flags                                      *)
(***************************************************************************)
\* C38: revocation is absorbing.  A refresh-token record or a session that
\* has revoked = true still has it after every step in which it is kept, and
\* every rotateRefreshToken that presents the secret of a revoked record
\* returns the token-revoked error.
C38_RevocationAbsorbing ==
  [][/\ \A r \in refreshTokens, n \in refreshTokens' :
          (r.revoked /\ n.id = r.id) => n.revoked
     /\ \A s \in sessions, n \in sessions' :
          (s.revoked /\ n.id = s.id) => n.revoked
     /\ \A p \in Procs, secret \in Secrets, fp \in ConcFingerprints :
          ( /\ RotateRefreshToken(p, secret, fp)
            /\ \E r \in FindByHash(secret) : r.revoked )
          => loc'[p].error = "Token has been revoked"]_vars

\* generateTokenPair has continued the family of a revoked session, and the
\* secret of a revoked record of that family has been refused
C38_Witness ==
  \E p \in Procs, s \in sessions :
    /\ loc[p].pc = "done"
    /\ loc[p].op = "rotateRefreshToken"
    /\ loc[p].error = "Token has been revoked"
    /\ s.revoked
    /\ s.lastActivity > s.sessionStarted
    /\ s.refreshCount = 0
    /\ \E r \in refreshTokens : r.tokenFamily = s.tokenFamily /\ r.revoked

\* C39: every refresh-token record that is neither revoked nor expired
\* belongs to a family that has a Session row, and rotateRefreshToken never
\* returns the session-not-found error (the check of the session comes after
\* those of the revocation and the expiry).
C39_LiveRecordHasSession ==
  /\ \A r \in refreshTokens :
       (~r.revoked /\ ~(now > r.expiresAt))
         => \E s \in sessions : s.tokenFamily = r.tokenFamily
  /\ \A p \in Procs :
       (loc[p].pc = "done" /\ loc[p].op = "rotateRefreshToken")
         => loc[p].error # "Session not found"

\* C40: every Session row has revoked = true exactly when isActive = false:
\* the operations that write one of the two flags write both in one
\* statement, and a new session is active and not revoked.
C40_RevokedIffInactive ==
  \A s \in sessions : s.revoked <=> ~s.isActive

\* enforceDeviceLimit has evicted a session and the account has a newer,
\* active one
C40_Witness ==
  \E s \in sessions, n \in sessions :
    /\ s.revoked
    /\ ~s.isActive
    /\ n.isActive
    /\ ~n.revoked
    /\ n.createdAt > s.createdAt
    /\ \E r \in refreshTokens : r.tokenFamily = s.tokenFamily /\ r.revoked

====
